---- MODULE Spec2Model ----
(***************************************************************************)
(* A model of the desktop assistant: the action model and plan validation  *)
(* (src/src/assistant/models/actions.py, validated step by step as in      *)
(* src/src/assistant/services/openai_service.py), the bounding box         *)
(* (src/src/assistant/models/common.py), the PyAutoGUI desktop controller   *)
(* and the execution engine (Orchestrator) that drives a validated plan.   *)
(*                                                                         *)
(* Conventions.  A raw step is a record whose DOMAIN is the set of keys    *)
(* the planner put in the dictionary.  An Optional[...] field of a typed   *)
(* action is None (<<>>) or Some(v) (<<v>>).  Floats are kept in           *)
(* thousandths (interval 0.01 is 10, duration 0.2 is 200).                 *)
(***************************************************************************)
EXTENDS Integers, Sequences, FiniteSets, TLC

(***************************************************************************)
(* Bounds of the model.                                                    *)
(***************************************************************************)
MaxPlanLen == 3
ScreenWidth == 4
ScreenHeight == 3

None == <<>>
Some(v) == <<v>>

(***************************************************************************)
(* models/actions.py: one record per action class.  tag is the Literal of  *)
(* the 'action' field, required the fields without a default, defaults the *)
(* default of every other field, optional the Optional[...] fields, ge the *)
(* fields declared Field(ge=0) and enum the allowed values of the fields   *)
(* typed Literal[...].                                                     *)
(***************************************************************************)
ClickActionCoordinatesRequired ==
    [name |-> "ClickAction", tag |-> "CLICK", required |-> {"x", "y"},
     optional |-> {"description", "reason"},
     ge |-> {}, enum |-> <<>>,
     defaults |-> [description |-> None, reason |-> None]]

ClickAction ==
    [name |-> "ClickAction", tag |-> "CLICK", required |-> {},
     optional |-> {"x", "y", "description", "reason"},
     ge |-> {}, enum |-> <<>>,
     defaults |-> [x |-> None, y |-> None, description |-> None, reason |-> None]]

TypeTextAction ==
    [name |-> "TypeTextAction", tag |-> "TYPE_TEXT", required |-> {"text"},
     optional |-> {"reason"},
     ge |-> {}, enum |-> <<>>,
     defaults |-> [interval |-> 10, reason |-> None]]

OpenApplicationAction ==
    [name |-> "OpenApplicationAction", tag |-> "OPEN_APPLICATION",
     required |-> {"application_name"}, optional |-> {"reason"},
     ge |-> {}, enum |-> <<>>,
     defaults |-> [reason |-> None]]

NavigateWebsiteAction ==
    [name |-> "NavigateWebsiteAction", tag |-> "NAVIGATE_TO_WEBSITE",
     required |-> {"url"}, optional |-> {"reason"},
     ge |-> {}, enum |-> <<>>,
     defaults |-> [reason |-> None]]

TakeScreenshotAction ==
    [name |-> "TakeScreenshotAction", tag |-> "TAKE_SCREENSHOT",
     required |-> {}, optional |-> {"reason"},
     ge |-> {}, enum |-> <<>>,
     defaults |-> [reason |-> None]]

AnalyzeScreenshotAction ==
    [name |-> "AnalyzeScreenshotAction", tag |-> "ANALYZE_SCREENSHOT",
     required |-> {"prompt"}, optional |-> {"reason"},
     ge |-> {}, enum |-> <<>>,
     defaults |-> [reason |-> None]]

WaitActionNoLowerBound ==
    [name |-> "WaitAction", tag |-> "WAIT", required |-> {},
     optional |-> {"reason"},
     ge |-> {}, enum |-> <<>>,
     defaults |-> [duration_ms |-> 1000, reason |-> None]]

WaitAction ==
    [name |-> "WaitAction", tag |-> "WAIT", required |-> {},
     optional |-> {"reason"},
     ge |-> {"duration_ms"}, enum |-> <<>>,
     defaults |-> [duration_ms |-> 1000, reason |-> None]]

PressKeyAction ==
    [name |-> "PressKeyAction", tag |-> "PRESS_KEY", required |-> {"key_name"},
     optional |-> {"reason"},
     ge |-> {}, enum |-> <<>>,
     defaults |-> [reason |-> None]]

FindAppAction ==
    [name |-> "FindAppAction", tag |-> "FIND_APP", required |-> {"app_name"},
     optional |-> {"reason"},
     ge |-> {}, enum |-> <<>>,
     defaults |-> [reason |-> None]]

DoubleClickAction ==
    [name |-> "DoubleClickAction", tag |-> "DOUBLE_CLICK", required |-> {},
     optional |-> {"x", "y", "description", "reason"},
     ge |-> {}, enum |-> <<>>,
     defaults |-> [x |-> None, y |-> None, description |-> None, reason |-> None]]

MoveMouseAction ==
    [name |-> "MoveMouseAction", tag |-> "MOVE_MOUSE", required |-> {"x", "y"},
     optional |-> {"reason"},
     ge |-> {"duration"}, enum |-> <<>>,
     defaults |-> [duration |-> 200, reason |-> None]]

TaskCompleteAction ==
    [name |-> "TaskCompleteAction", tag |-> "TASK_COMPLETE", required |-> {},
     optional |-> {"message", "reason"},
     ge |-> {}, enum |-> [success |-> {TRUE}],
     defaults |-> [message |-> None, success |-> TRUE, reason |-> None]]

TaskFailedAction ==
    [name |-> "TaskFailedAction", tag |-> "TASK_FAILED", required |-> {},
     optional |-> {"message", "reason"},
     ge |-> {}, enum |-> [success |-> {FALSE}],
     defaults |-> [message |-> None, success |-> FALSE, reason |-> None]]

ScrollAction ==
    [name |-> "ScrollAction", tag |-> "SCROLL", required |-> {"direction"},
     optional |-> {"reason"},
     ge |-> {}, enum |-> [direction |-> {"up", "down", "left", "right"}],
     defaults |-> [amount |-> 10, reason |-> None]]

(* The Union, in the order of the source. *)
AnyAction ==
    << ClickAction, DoubleClickAction, TypeTextAction, OpenApplicationAction,
       NavigateWebsiteAction, TakeScreenshotAction, AnalyzeScreenshotAction,
       PressKeyAction, WaitAction, FindAppAction, ScrollAction,
       MoveMouseAction, TaskCompleteAction, TaskFailedAction >>


(***************************************************************************)
(* Validation of one raw step against one class (pydantic BaseModel): keys *)
(* the class does not declare are ignored, a missing key takes its         *)
(* default, 'action' must equal the class's Literal when it is present.    *)
(* An error is [loc, type] as in ValidationError.errors().                 *)
(***************************************************************************)
Fields(cls) == {"action"} \cup cls.required \cup DOMAIN cls.defaults

(* A raw step is a record of its non-null values; the keys it gives with  *)
(* the value null (None) are listed under "nulls".                        *)
Nulls(r) == IF "nulls" \in DOMAIN r THEN r.nulls ELSE {}

Given(r) == (DOMAIN r \ {"nulls"}) \cup Nulls(r)

FieldErrors(cls, r) ==
    {[loc |-> <<cls.name, "action">>, type |-> "literal_error"] :
        f \in {g \in {"action"} \cap DOMAIN r : r[g] # cls.tag}}
    \cup {[loc |-> <<cls.name, f>>, type |-> "literal_error"] :
        f \in {"action"} \cap Nulls(r)}
    \cup {[loc |-> <<cls.name, f>>, type |-> "missing"] :
        f \in cls.required \ Given(r)}
    \cup {[loc |-> <<cls.name, f>>, type |-> "type_error"] :
        f \in ((Fields(cls) \ {"action"}) \ cls.optional) \cap Nulls(r)}
    \cup {[loc |-> <<cls.name, f>>, type |-> "greater_than_equal"] :
        f \in {g \in cls.ge \cap DOMAIN r : r[g] < 0}}
    \cup {[loc |-> <<cls.name, f>>, type |-> "literal_error"] :
        f \in {g \in DOMAIN cls.enum \cap DOMAIN r : r[g] \notin cls.enum[g]}}

DecodeDropsOptional(cls, r) ==
    [f \in Fields(cls) |->
        IF f = "action" THEN cls.tag
        ELSE IF f \in DOMAIN r /\ f \notin cls.optional
             THEN r[f]
             ELSE cls.defaults[f]]

Decode(cls, r) ==
    [f \in Fields(cls) |->
        IF f = "action" THEN cls.tag
        ELSE IF f \in DOMAIN r
             THEN (IF f \in cls.optional THEN Some(r[f]) ELSE r[f])
             ELSE cls.defaults[f]]

(***************************************************************************)
(* TypeAdapter(AnyAction).validate_python(step).  AnyAction is a plain     *)
(* Union (no discriminator is declared), validated in pydantic's smart     *)
(* mode: every member is tried, a step no member accepts fails with the    *)
(* errors of all members, and among the members that accept it the one     *)
(* with the most fields set wins, the earliest in the Union on a tie.      *)
(***************************************************************************)
FieldsSet(cls, r) == Cardinality(Given(r) \cap Fields(cls))

Accepting(r) == {i \in DOMAIN AnyAction : FieldErrors(AnyAction[i], r) = {}}

SmartChoice(r) ==
    CHOOSE i \in Accepting(r) :
        \A j \in Accepting(r) :
            \/ FieldsSet(AnyAction[j], r) < FieldsSet(AnyAction[i], r)
            \/ FieldsSet(AnyAction[j], r) = FieldsSet(AnyAction[i], r) /\ i <= j

validate_python(r) ==
    IF Accepting(r) = {}
    THEN [ok |-> FALSE, value |-> None,
          errors |-> UNION {FieldErrors(AnyAction[i], r) : i \in DOMAIN AnyAction}]
    ELSE [ok |-> TRUE, value |-> Decode(AnyAction[SmartChoice(r)], r),
          errors |-> {}]

(* The class of a validated action. *)
ClassOf(a) == AnyAction[CHOOSE i \in DOMAIN AnyAction : AnyAction[i].tag = a.action]

NoneFields(a) == {f \in DOMAIN a \cap ClassOf(a).optional : a[f] = None}

model_dump_exclude_defaults(a, exclude_none) ==
    LET cls == ClassOf(a)
        kept == {f \in (DOMAIN a \ {"action"}) \ NoneFields(a) :
                    IF f \in DOMAIN cls.defaults
                    THEN (IF f \in cls.optional THEN TRUE ELSE a[f] # cls.defaults[f])
                    ELSE TRUE}
    IN  [f \in kept |-> IF f \in cls.optional THEN a[f][1] ELSE a[f]]

(* BaseModel.model_dump(exclude_none=...): the action as a raw record,    *)
(* every field of the class a key, None fields null unless excluded.      *)
model_dump(a, exclude_none) ==
    LET cls == ClassOf(a)
        values == [f \in DOMAIN a \ NoneFields(a) |->
                      IF f \in cls.optional THEN a[f][1] ELSE a[f]]
    IN  IF exclude_none \/ NoneFields(a) = {}
        THEN values
        ELSE values @@ [nulls |-> NoneFields(a)]

(* The step indexes (from 0) a validation failure names. *)
ReportedIndexes(errors) ==
    {e.loc[2] : e \in {d \in errors : Len(d.loc) >= 2 /\ d.loc[1] = "steps"}}


(***************************************************************************)
(* models/common.py: BoundingBox and its center.                           *)
(***************************************************************************)
coords_must_be_positive(v) == v >= 0

check_min_max_order_not_strict(b) == b.x_max >= b.x_min /\ b.y_max >= b.y_min

check_min_max_order(b) == b.x_max > b.x_min /\ b.y_max > b.y_min

(* BoundingBox(x_min=a, y_min=b, x_max=c, y_max=d): the box, or None when *)
(* a validator raises.                                                     *)
BoundingBox(a, b, c, d) ==
    LET box == [x_min |-> a, y_min |-> b, x_max |-> c, y_max |-> d]
    IN  IF /\ \A v \in {a, b, c, d} : coords_must_be_positive(v)
           /\ check_min_max_order(box)
        THEN Some(box) ELSE None

calculate_center_from_origin(b) ==
    [x |-> (b.x_max - b.x_min) \div 2,
     y |-> (b.y_max - b.y_min) \div 2]

calculate_center_upper(b) ==
    [x |-> b.x_min + (b.x_max - b.x_min + 1) \div 2,
     y |-> b.y_min + (b.y_max - b.y_min + 1) \div 2]

calculate_center_of_square(b) ==
    [x |-> b.x_min + (b.x_max - b.x_min) \div 2,
     y |-> b.y_min + (b.x_max - b.x_min) \div 2]

calculate_center(b) ==
    [x |-> b.x_min + (b.x_max - b.x_min) \div 2,
     y |-> b.y_min + (b.y_max - b.y_min) \div 2]

(* BoundingBox.from_list: None when it raises. *)
from_list_first_four(coords) ==
    IF Len(coords) < 4
    THEN None
    ELSE BoundingBox(coords[1], coords[2], coords[3], coords[4])

from_list(coords) ==
    IF Len(coords) # 4
    THEN None
    ELSE BoundingBox(coords[1], coords[2], coords[3], coords[4])

(***************************************************************************)
(* models/common.py: VLMAnalysisResult(kw).  A field that is not given     *)
(* takes its default; identified_element_bbox is Optional[BoundingBox].    *)
(***************************************************************************)
VLMAnalysisResultBoxByDefault(kw) ==
    LET defaults == [found_elements |-> <<>>, main_text_content |-> None,
                     identified_element_bbox |->
                        Some([x_min |-> 0, y_min |-> 0, x_max |-> 1, y_max |-> 1]),
                     verification_passed |-> None, raw_output |-> None]
    IN  [f \in DOMAIN defaults |-> IF f \in DOMAIN kw THEN kw[f] ELSE defaults[f]]

VLMAnalysisResult(kw) ==
    LET defaults == [found_elements |-> <<>>, main_text_content |-> None,
                     identified_element_bbox |-> None,
                     verification_passed |-> None, raw_output |-> None]
    IN  [f \in DOMAIN defaults |-> IF f \in DOMAIN kw THEN kw[f] ELSE defaults[f]]

(***************************************************************************)
(* services/desktop_control/pyautogui_controller.py.  Each operation is    *)
(* the set of its possible outcomes [raises, error, inject, issued]:       *)
(* inject is the input PyAutoGUI injects into the desktop, issued counts   *)
(* the PyAutoGUI input calls the operation made, and every PyAutoGUI call  *)
(* may itself raise, which the controller wraps in a DesktopControlError.  *)
(***************************************************************************)
Returns(inputs) ==
    [raises |-> FALSE, error |-> "", inject |-> inputs, issued |-> Len(inputs)]

(* Raised before any PyAutoGUI input call was made. *)
Raises(err) == [raises |-> TRUE, error |-> err, inject |-> <<>>, issued |-> 0]

(* The one PyAutoGUI input call was made and raised. *)
Fails(err) == [raises |-> TRUE, error |-> err, inject |-> <<>>, issued |-> 1]

_validate_coordinates(x, y) ==
    0 <= x /\ x < ScreenWidth /\ 0 <= y /\ y < ScreenHeight

click(x, y) ==
    IF ~_validate_coordinates(x, y)
    THEN {Raises("DesktopControlError: out of bounds")}
    ELSE {Returns(<<[input |-> "click", at |-> <<x, y>>]>>),
          Fails("DesktopControlError: click failed")}

double_click(x, y) ==
    IF ~_validate_coordinates(x, y)
    THEN {Raises("DesktopControlError: out of bounds")}
    ELSE {Returns(<<[input |-> "doubleClick", at |-> <<x, y>>]>>),
          Fails("DesktopControlError: double click failed")}

type_text(text, interval) ==
    {Returns(<<[input |-> "write", at |-> <<text, interval>>]>>),
     Fails("DesktopControlError: typing failed")}

(* str.lower() on the key names the model uses. *)
Lower(key_name) ==
    CASE key_name = "Enter" -> "enter"
      [] key_name = "TAB" -> "tab"
      [] OTHER -> key_name

KEYBOARD_KEYS == {"enter", "tab", "esc", "f5"}

press_key(key_name) ==
    IF Lower(key_name) \notin KEYBOARD_KEYS
    THEN {Raises("DesktopControlError: invalid key name")}
    ELSE {Returns(<<[input |-> "press", at |-> <<Lower(key_name)>>]>>),
          Fails("DesktopControlError: key press failed")}

take_screenshot ==
    {Returns(<<>>), Raises("ScreenshotError: capture failed")}

open_application(application_name) ==
    {Returns(<<[input |-> "launch", at |-> <<application_name>>]>>),
     Fails("DesktopControlError: failed to open application")}

navigate_url(url) ==
    {Returns(<<[input |-> "browse", at |-> <<url>>]>>),
     Fails("DesktopControlError: failed to navigate")}

scroll_by_magnitude(direction, amount) ==
    LET done == CASE direction \in {"up", "down"} ->
                        <<[input |-> "scroll", at |-> <<amount>>]>>
                  [] direction \in {"left", "right"} ->
                        <<[input |-> "hscroll", at |-> <<amount>>]>>
                  [] OTHER -> <<>>
    IN  IF direction \in {"up", "down", "left", "right"}
        THEN {Returns(done), Fails("DesktopControlError: scroll failed")}
        ELSE {Returns(done)}

scroll(direction, amount) ==
    LET done == CASE direction = "up" ->
                        <<[input |-> "scroll", at |-> <<amount>>]>>
                  [] direction = "down" ->
                        <<[input |-> "scroll", at |-> <<-amount>>]>>
                  [] direction = "left" ->
                        <<[input |-> "hscroll", at |-> <<-amount>>]>>
                  [] direction = "right" ->
                        <<[input |-> "hscroll", at |-> <<amount>>]>>
                  [] OTHER -> <<>>
    IN  IF direction \in {"up", "down", "left", "right"}
        THEN {Returns(done), Fails("DesktopControlError: scroll failed")}
        ELSE {Returns(done)}

move_mouse_unvalidated(x, y, duration) ==
    {Returns(<<[input |-> "moveTo", at |-> <<x, y, duration>>]>>),
     Fails("DesktopControlError: move mouse failed")}

move_mouse(x, y, duration) ==
    IF ~_validate_coordinates(x, y)
    THEN {Raises("DesktopControlError: out of bounds")}
    ELSE {Returns(<<[input |-> "moveTo", at |-> <<x, y, duration>>]>>),
          Fails("DesktopControlError: move mouse failed")}


(***************************************************************************)
(* The inputs the model draws from: the raw step records a planner may     *)
(* emit, and the analyses the vision service may return for a grounding    *)
(* query (a located element's box as [x_min, y_min, x_max, y_max], or no   *)
(* box).                                                                   *)
(***************************************************************************)
RawSamples ==
    { [action |-> "CLICK", x |-> 1, y |-> 1],
      [action |-> "CLICK", x |-> ScreenWidth, y |-> 0],
      [action |-> "CLICK", description |-> "Save button"],
      [action |-> "CLICK"],
      [action |-> "DOUBLE_CLICK", description |-> "icon"],
      [action |-> "DOUBLE_CLICK"],
      [action |-> "TYPE_TEXT", text |-> "hi"],
      [action |-> "TYPE_TEXT"],
      [action |-> "PRESS_KEY", key_name |-> "Enter"],
      [action |-> "WAIT", duration_ms |-> -1],
      [action |-> "WAIT"],
      [action |-> "SCROLL", direction |-> "down"],
      [action |-> "TAKE_SCREENSHOT"],
      [action |-> "ANALYZE_SCREENSHOT", prompt |-> "what is open"],
      [action |-> "FIND_APP", app_name |-> "notes"],
      [action |-> "TASK_COMPLETE", message |-> "done"],
      [action |-> "TASK_FAILED", message |-> "cannot find app"],
      [action |-> "FLY"],
      [text |-> "hi"] }

RECURSIVE SeqsUpTo(_, _)
SeqsUpTo(S, n) ==
    IF n = 0 THEN {<<>>}
    ELSE LET shorter == SeqsUpTo(S, n - 1)
         IN  shorter \cup {Append(q, e) : q \in shorter, e \in S}

RawPlans == SeqsUpTo(RawSamples, MaxPlanLen)

(* What the planner may answer depends on the command: the plans for the  *)
(* short command of the sessions have at most MaxShortPlanLen steps, the  *)
(* plans for the long one at most MaxPlanLen.                             *)
MaxShortPlanLen == 2

LongCommand == "open notes, write hi and save"

ShortRawPlans == SeqsUpTo(RawSamples, MaxShortPlanLen)

PlansFor(user_command) ==
    IF user_command = LongCommand THEN RawPlans ELSE ShortRawPlans

(***************************************************************************)
(* Validation of a raw step list as openai_service.main does it "as the    *)
(* orchestrator would": action_adapter = TypeAdapter(AnyAction), then      *)
(* [action_adapter.validate_python(step) for step in raw_plan].  The       *)
(* comprehension stops at the first step that raises, and the              *)
(* ValidationError it lets through is that one step's.                     *)
(***************************************************************************)
action_adapter == [r \in RawSamples |-> validate_python(r)]

InvalidSteps(raw) == {i \in DOMAIN raw : ~action_adapter[raw[i]].ok}

FirstInvalid(raw) == CHOOSE i \in InvalidSteps(raw) : \A j \in InvalidSteps(raw) : i <= j

ValidPrefixOnly(raw) ==
    LET n == IF InvalidSteps(raw) = {} THEN Len(raw) ELSE FirstInvalid(raw) - 1
    IN  [ok |-> TRUE,
         steps |-> [i \in 1..n |-> action_adapter[raw[i]].value],
         errors |-> {}]

ValidateStepsReversed(raw) ==
    IF InvalidSteps(raw) = {}
    THEN [ok |-> TRUE,
          steps |-> [i \in DOMAIN raw |-> action_adapter[raw[Len(raw) + 1 - i]].value],
          errors |-> {}]
    ELSE [ok |-> FALSE, steps |-> <<>>,
          errors |-> action_adapter[raw[FirstInvalid(raw)]].errors]

ValidateStepsDropsLast(raw) ==
    IF InvalidSteps(raw) = {}
    THEN [ok |-> TRUE,
          steps |-> [i \in 1..(Len(raw) - 1) |-> action_adapter[raw[i]].value],
          errors |-> {}]
    ELSE [ok |-> FALSE, steps |-> <<>>,
          errors |-> action_adapter[raw[FirstInvalid(raw)]].errors]

ValidateSteps(raw) ==
    IF InvalidSteps(raw) = {}
    THEN [ok |-> TRUE,
          steps |-> [i \in DOMAIN raw |-> action_adapter[raw[i]].value],
          errors |-> {}]
    ELSE [ok |-> FALSE, steps |-> <<>>,
          errors |-> action_adapter[raw[FirstInvalid(raw)]].errors]

(***************************************************************************)
(* Plan(steps=raw): the container validates every item of the list and     *)
(* collects the errors of all of them, each loc prefixed by ('steps', i)   *)
(* with i counted from 0.                                                  *)
(***************************************************************************)
Plan(raw) ==
    IF InvalidSteps(raw) = {}
    THEN [ok |-> TRUE,
          steps |-> [i \in DOMAIN raw |-> action_adapter[raw[i]].value],
          errors |-> {}]
    ELSE [ok |-> FALSE, steps |-> <<>>,
          errors |-> UNION {{[loc |-> <<"steps", i - 1>> \o e.loc, type |-> e.type] :
                                e \in action_adapter[raw[i]].errors} :
                            i \in InvalidSteps(raw)}]

Analyses ==
    { [text_found |-> ""],
      [text_found |-> "Save", bounding_box |-> <<0, 0, 3, 2>>],
      [text_found |-> "Save", bounding_box |-> <<1, 0, ScreenWidth, ScreenHeight>>],
      [text_found |-> "Save", bounding_box |-> <<ScreenWidth, 0, ScreenWidth + 2, 2>>] }

(***************************************************************************)
(* State.  engineState, stepIndex, plan, cause and message are the         *)
(* engine's; pc is the engine's position (the await it is suspended at);   *)
(* calls is the history of the calls the engine and the resolver made to   *)
(* their collaborators, each [step, by, op, args, result, out] with result *)
(* "pending" while the call is in flight, "ok" or the error it raised      *)
(* afterwards, and out what it returned (None, or Some(analysis));         *)
(* injected is the input injected into the desktop so far.                 *)
(***************************************************************************)
VARIABLES engineState, stepIndex, pc, rawPlan, plan, errors, cause, message,
          calls, injected

(***************************************************************************)
(* main(command): mainPc is main's position, app_config the configuration  *)
(* it finds, command its argument (None: interactive), commandNo the       *)
(* number of commands handed to Orchestrator.run so far, outcome how the   *)
(* last of them ended ("Raised" when run raised), stopped why main ended   *)
(* ("" while it has not) and run_command the command string the last call  *)
(* of Orchestrator.run was given.                                          *)
(***************************************************************************)
VARIABLES mainPc, app_config, command, commandNo, outcome, stopped,
          run_command

(***************************************************************************)
(* unit is a direct call of one of the models' functions, as the unit      *)
(* tests make them: [call, args, pc, out] with pc "called", then           *)
(* "returned" (out is what it returned) or "raised".                       *)
(***************************************************************************)
VARIABLE unit

engineVars == <<engineState, stepIndex, pc, rawPlan, plan, errors, cause,
                message, calls, injected>>

mainVars == <<mainPc, app_config, command, commandNo, outcome, stopped,
              run_command, unit>>

NoCall == [call |-> "", args |-> <<>>, pc |-> "", out |-> None]

vars == <<engineState, stepIndex, pc, rawPlan, plan, errors, cause, message,
          calls, injected, mainPc, app_config, command, commandNo, outcome,
          stopped, run_command, unit>>

MaxCommands == 2

(* config.py: the two credentials come from the environment (None when    *)
(* unset); the deployment owner and name are fixed.                       *)
AppConfig ==
    [openai_api_key : {None, Some(""), Some("sk-1")},
     replicate_api_token : {None, Some(""), Some("r8-1")},
     replicate_deployment_owner : {"rapidstart"},
     replicate_deployment_name : {"omni-dev"}]

(* Python's "not v" for an Optional[str]. *)
Not(v) == v = None \/ v = Some("")

(* The engine between commands. *)
EngineIdle ==
    /\ engineState = "Idle"
    /\ stepIndex = 0
    /\ pc = "idle"
    /\ rawPlan = <<>>
    /\ plan = <<>>
    /\ errors = {}
    /\ cause = None
    /\ message = None
    /\ calls = <<>>
    /\ injected = <<>>

(* main is entered. *)
MainInit ==
    /\ EngineIdle
    /\ mainPc = "config"
    /\ app_config \in AppConfig
    /\ command \in {None, Some("open notes")}
    /\ commandNo = 0
    /\ outcome = ""
    /\ stopped = ""
    /\ run_command = ""
    /\ unit = NoCall

(* One command: Orchestrator.run has just been entered for the command    *)
(* main was given.                                                        *)
Init ==
    /\ engineState = "Idle"
    /\ stepIndex = 0
    /\ pc = "received"
    /\ rawPlan = <<>>
    /\ plan = <<>>
    /\ errors = {}
    /\ cause = None
    /\ message = None
    /\ calls = <<>>
    /\ injected = <<>>
    /\ mainPc = "run"
    /\ app_config = [openai_api_key |-> Some("sk-1"),
                     replicate_api_token |-> Some("r8-1"),
                     replicate_deployment_owner |-> "rapidstart",
                     replicate_deployment_name |-> "omni-dev"]
    /\ command = Some(LongCommand)
    /\ commandNo = 1
    /\ outcome = ""
    /\ stopped = ""
    /\ run_command = LongCommand
    /\ unit = NoCall

(***************************************************************************)
(* The execution engine (Orchestrator.run), one command.                   *)
(***************************************************************************)
Call(by, op, args) ==
    [step |-> stepIndex, by |-> by, op |-> op, args |-> args,
     result |-> "pending", out |-> None]

Pending == calls[Len(calls)]

Settle(result) == [calls EXCEPT ![Len(calls)].result = result]

SettleWith(analysis) ==
    [calls EXCEPT ![Len(calls)].result = "ok", ![Len(calls)].out = Some(analysis)]

(***************************************************************************)
(* The grounding resolver: the analysis is parsed for a bounding box; the  *)
(* center of the box when there is one, None ("not found") otherwise.      *)
(***************************************************************************)
Resolve(analysis) ==
    LET l == analysis.bounding_box
        parsed == IF "bounding_box" \in DOMAIN analysis
                  THEN VLMAnalysisResult(
                          [raw_output |-> analysis,
                           identified_element_bbox |->
                               BoundingBox(l[1], l[2], l[3], l[4])])
                  ELSE VLMAnalysisResult([raw_output |-> analysis])
    IN  IF parsed.identified_element_bbox = None
        THEN None
        ELSE Some(calculate_center(parsed.identified_element_bbox[1]))

Current == plan[stepIndex + 1]

HasCoordinates(a) == a.x # None /\ a.y # None

NeedsGrounding(a) ==
    a.action \in {"CLICK", "DOUBLE_CLICK"} /\ ~HasCoordinates(a)

(* The desktop-control operation an action is dispatched to. *)
OperationOf(a) ==
    CASE a.action = "CLICK" -> [op |-> "click", args |-> <<a.x[1], a.y[1]>>]
      [] a.action = "DOUBLE_CLICK" ->
            [op |-> "double_click", args |-> <<a.x[1], a.y[1]>>]
      [] a.action = "TYPE_TEXT" ->
            [op |-> "type_text", args |-> <<a.text, a.interval>>]
      [] a.action = "PRESS_KEY" -> [op |-> "press_key", args |-> <<a.key_name>>]
      [] a.action = "MOVE_MOUSE" ->
            [op |-> "move_mouse", args |-> <<a.x, a.y, a.duration>>]
      [] a.action = "SCROLL" ->
            [op |-> "scroll", args |-> <<a.direction, a.amount>>]
      [] a.action = "OPEN_APPLICATION" ->
            [op |-> "open_application", args |-> <<a.application_name>>]
      [] a.action = "NAVIGATE_TO_WEBSITE" ->
            [op |-> "navigate_url", args |-> <<a.url>>]
      [] a.action \in {"TAKE_SCREENSHOT", "ANALYZE_SCREENSHOT"} ->
            [op |-> "take_screenshot", args |-> <<>>]
      [] a.action = "WAIT" -> [op |-> "sleep", args |-> <<a.duration_ms>>]

(* What the call c can do, by the controller's code. *)
Outcomes(c) ==
    CASE c.op = "click" -> click(c.args[1], c.args[2])
      [] c.op = "double_click" -> double_click(c.args[1], c.args[2])
      [] c.op = "type_text" -> type_text(c.args[1], c.args[2])
      [] c.op = "press_key" -> press_key(c.args[1])
      [] c.op = "move_mouse" -> move_mouse(c.args[1], c.args[2], c.args[3])
      [] c.op = "scroll" -> scroll(c.args[1], c.args[2])
      [] c.op = "open_application" -> open_application(c.args[1])
      [] c.op = "navigate_url" -> navigate_url(c.args[1])
      [] c.op = "take_screenshot" -> take_screenshot
      [] c.op = "sleep" -> {Returns(<<>>)}

Terminate(state, why, msg) ==
    /\ engineState' = state
    /\ cause' = why
    /\ message' = msg
    /\ pc' = "done"

(* The command was received in Idle: the engine is Running, at step 0,     *)
(* from here until it reaches a terminal state, and asks for the plan.     *)
StartRunning ==
    /\ pc = "received"
    /\ engineState = "Idle"
    /\ engineState' = "Running"
    /\ pc' = "planning"
    /\ UNCHANGED <<stepIndex, rawPlan, plan, errors, cause, message, calls,
                   injected>>
    /\ UNCHANGED mainVars

(* generate_plan returns a raw step list; the whole list is validated     *)
(* before the first step runs.                                            *)
GeneratePlanReturns ==
    /\ pc = "planning"
    /\ \E raw \in PlansFor(run_command) :
         LET v == ValidateSteps(raw)
         IN  /\ rawPlan' = raw
             /\ plan' = v.steps
             /\ errors' = v.errors
             /\ IF v.ok
                THEN /\ engineState' = "Running"
                     /\ pc' = "step"
                     /\ UNCHANGED <<cause, message>>
                ELSE Terminate("Aborted", Some("ValidationError"), None)
    /\ UNCHANGED <<stepIndex, calls, injected>>
    /\ UNCHANGED mainVars

GeneratePlanRaises ==
    /\ pc = "planning"
    /\ Terminate("Aborted", Some("LLMError"), None)
    /\ UNCHANGED <<stepIndex, rawPlan, plan, errors, calls, injected>>
    /\ UNCHANGED mainVars

(* The sequence is exhausted: implicit success. *)
PlanExhaustedIdles ==
    /\ pc = "step"
    /\ stepIndex = Len(plan)
    /\ UNCHANGED engineVars
    /\ UNCHANGED mainVars

PlanExhausted ==
    /\ pc = "step"
    /\ stepIndex = Len(plan)
    /\ Terminate("Completed", None, None)
    /\ UNCHANGED <<stepIndex, rawPlan, plan, errors, calls, injected>>
    /\ UNCHANGED mainVars

TaskCompleteAndGoOn ==
    /\ pc = "step"
    /\ stepIndex < Len(plan)
    /\ Current.action = "TASK_COMPLETE"
    /\ engineState' = "Completed"
    /\ message' = Current.message
    /\ stepIndex' = stepIndex + 1
    /\ UNCHANGED <<pc, cause, rawPlan, plan, errors, calls, injected>>
    /\ UNCHANGED mainVars

TaskComplete ==
    /\ pc = "step"
    /\ stepIndex < Len(plan)
    /\ Current.action = "TASK_COMPLETE"
    /\ Terminate("Completed", None, Current.message)
    /\ UNCHANGED <<stepIndex, rawPlan, plan, errors, calls, injected>>
    /\ UNCHANGED mainVars

TaskFailed ==
    /\ pc = "step"
    /\ stepIndex < Len(plan)
    /\ Current.action = "TASK_FAILED"
    /\ Terminate("Failed", Current.message, Current.message)
    /\ UNCHANGED <<stepIndex, rawPlan, plan, errors, calls, injected>>
    /\ UNCHANGED mainVars

(* FIND_APP is advisory: nothing is dispatched for it. *)
FindApp ==
    /\ pc = "step"
    /\ stepIndex < Len(plan)
    /\ Current.action = "FIND_APP"
    /\ stepIndex' = stepIndex + 1
    /\ UNCHANGED <<engineState, pc, rawPlan, plan, errors, cause, message,
                   calls, injected>>
    /\ UNCHANGED mainVars

(* A click with neither coordinates nor a description cannot be resolved. *)
Unresolvable ==
    /\ pc = "step"
    /\ stepIndex < Len(plan)
    /\ NeedsGrounding(Current)
    /\ Current.description = None
    /\ Terminate("Failed", Some("no coordinates and no description"), None)
    /\ UNCHANGED <<stepIndex, rawPlan, plan, errors, calls, injected>>
    /\ UNCHANGED mainVars

(* Grounding starts from a screenshot captured now. *)
CaptureForGrounding ==
    /\ pc = "step"
    /\ stepIndex < Len(plan)
    /\ NeedsGrounding(Current)
    /\ Current.description # None
    /\ calls' = Append(calls, Call("engine", "take_screenshot", <<>>))
    /\ pc' = "shot"
    /\ UNCHANGED <<engineState, stepIndex, rawPlan, plan, errors, cause,
                   message, injected>>
    /\ UNCHANGED mainVars

CaptureReturnsReusesFirst ==
    /\ pc = "shot"
    /\ \E o \in Outcomes(Pending) :
         /\ ~o.raises
         /\ calls' = Append(Settle("ok"),
                Call("resolver", "analyze_image",
                     <<0, Current.description[1]>>))
    /\ pc' = "ground"
    /\ UNCHANGED <<engineState, stepIndex, rawPlan, plan, errors, cause,
                   message, injected>>
    /\ UNCHANGED mainVars

(* The screenshot handed to the resolver shows the screen as it is when    *)
(* the capture returns: after Len(injected) inputs.                        *)

CaptureReturns ==
    /\ pc = "shot"
    /\ \E o \in Outcomes(Pending) :
         /\ ~o.raises
         /\ calls' = Append(Settle("ok"),
                Call("resolver", "analyze_image",
                     <<Len(injected), Current.description[1]>>))
    /\ pc' = "ground"
    /\ UNCHANGED <<engineState, stepIndex, rawPlan, plan, errors, cause,
                   message, injected>>
    /\ UNCHANGED mainVars

CaptureRaises ==
    /\ pc = "shot"
    /\ \E o \in Outcomes(Pending) :
         /\ o.raises
         /\ calls' = Settle(o.error)
         /\ Terminate("Failed", Some(o.error), None)
    /\ UNCHANGED <<stepIndex, rawPlan, plan, errors, injected>>
    /\ UNCHANGED mainVars

(* The resolver's answer is a point: the engine issues the click there. *)
GroundingFound ==
    /\ pc = "ground"
    /\ \E analysis \in Analyses :
         /\ Resolve(analysis) # None
         /\ LET c == Resolve(analysis)[1]
                op == IF Current.action = "CLICK" THEN "click" ELSE "double_click"
            IN  calls' = Append(SettleWith(analysis),
                                Call("engine", op, <<c.x, c.y>>))
    /\ pc' = "op"
    /\ UNCHANGED <<engineState, stepIndex, rawPlan, plan, errors, cause,
                   message, injected>>
    /\ UNCHANGED mainVars

(* The resolver reports "not found": no coordinates are guessed. *)
GroundingNotFound ==
    /\ pc = "ground"
    /\ \E analysis \in Analyses :
         /\ Resolve(analysis) = None
         /\ calls' = SettleWith(analysis)
    /\ Terminate("Failed", Some("target not found"), None)
    /\ UNCHANGED <<stepIndex, rawPlan, plan, errors, injected>>
    /\ UNCHANGED mainVars

GroundingRaisesAsFailed ==
    /\ pc = "ground"
    /\ calls' = Settle("VLMError")
    /\ Terminate("Failed", Some("VLMError"), None)
    /\ UNCHANGED <<stepIndex, rawPlan, plan, errors, injected>>
    /\ UNCHANGED mainVars

GroundingRaises ==
    /\ pc = "ground"
    /\ calls' = Settle("VLMError")
    /\ Terminate("Aborted", Some("VLMError"), None)
    /\ UNCHANGED <<stepIndex, rawPlan, plan, errors, injected>>
    /\ UNCHANGED mainVars

(* Every other action is dispatched to its desktop-control operation. *)
Dispatch ==
    /\ pc = "step"
    /\ stepIndex < Len(plan)
    /\ Current.action \notin {"TASK_COMPLETE", "TASK_FAILED", "FIND_APP"}
    /\ ~NeedsGrounding(Current)
    /\ LET o == OperationOf(Current)
       IN  calls' = Append(calls, Call("engine", o.op, o.args))
    /\ pc' = "op"
    /\ UNCHANGED <<engineState, stepIndex, rawPlan, plan, errors, cause,
                   message, injected>>
    /\ UNCHANGED mainVars

OperationReturns ==
    /\ pc = "op"
    /\ \E o \in Outcomes(Pending) :
         /\ ~o.raises
         /\ injected' = injected \o o.inject
         /\ IF Current.action = "ANALYZE_SCREENSHOT"
            THEN /\ calls' = Append(Settle("ok"),
                        Call("engine", "analyze_image",
                             <<Len(injected), Current.prompt>>))
                 /\ pc' = "analyze"
                 /\ UNCHANGED stepIndex
            ELSE /\ calls' = Settle("ok")
                 /\ pc' = "step"
                 /\ stepIndex' = stepIndex + 1
    /\ UNCHANGED <<engineState, rawPlan, plan, errors, cause, message>>
    /\ UNCHANGED mainVars

OperationRaisesAndRetries ==
    /\ pc = "op"
    /\ \E o \in Outcomes(Pending) :
         /\ o.raises
         /\ calls' = Append(Settle(o.error),
                            Call(Pending.by, Pending.op, Pending.args))
    /\ UNCHANGED <<engineState, stepIndex, pc, rawPlan, plan, errors, cause,
                   message, injected>>
    /\ UNCHANGED mainVars

(* No retry: the error ends the command. *)
OperationRaises ==
    /\ pc = "op"
    /\ \E o \in Outcomes(Pending) :
         /\ o.raises
         /\ calls' = Settle(o.error)
         /\ Terminate("Failed", Some(o.error), None)
    /\ UNCHANGED <<stepIndex, rawPlan, plan, errors, injected>>
    /\ UNCHANGED mainVars

AnalysisReturns ==
    /\ pc = "analyze"
    /\ calls' = Settle("ok")
    /\ pc' = "step"
    /\ stepIndex' = stepIndex + 1
    /\ UNCHANGED <<engineState, rawPlan, plan, errors, cause, message, injected>>
    /\ UNCHANGED mainVars

AnalysisRaises ==
    /\ pc = "analyze"
    /\ calls' = Settle("VLMError")
    /\ Terminate("Aborted", Some("VLMError"), None)
    /\ UNCHANGED <<stepIndex, rawPlan, plan, errors, injected>>
    /\ UNCHANGED mainVars

(***************************************************************************)
(* main.py: start-up.  The constructors of the three services, each the    *)
(* set of ways it can end ("ok" or the error it raises).                   *)
(***************************************************************************)
OpenAIService(config) ==
    IF Not(config.openai_api_key) THEN {"ConfigError"} ELSE {"ok", "LLMError"}

ReplicateVLMService(config) ==
    IF Not(config.replicate_api_token) THEN {"ConfigError"}
    ELSE IF config.replicate_deployment_owner = ""
              \/ config.replicate_deployment_name = ""
         THEN {"ConfigError"}
         ELSE {"ok", "VLMError"}

PyAutoGUIController == {"ok", "DesktopControlError"}

(* The services are constructed in this order; the first error ends it. *)
InitializeServices(config) ==
    LET llm == OpenAIService(config)
        vlm == ReplicateVLMService(config)
    IN  (llm \ {"ok"})
           \cup (IF "ok" \in llm THEN vlm \ {"ok"} ELSE {})
           \cup (IF "ok" \in llm /\ "ok" \in vlm
                 THEN PyAutoGUIController ELSE {})

Return(why) ==
    /\ mainPc' = "returned"
    /\ stopped' = why

(* A credential is missing: main returns before anything is constructed. *)
ConfigMissing ==
    /\ mainPc = "config"
    /\ Not(app_config.openai_api_key) \/ Not(app_config.replicate_api_token)
    /\ Return("config")
    /\ UNCHANGED <<run_command, unit, app_config, command, commandNo, outcome>>
    /\ UNCHANGED engineVars

ConfigPresent ==
    /\ mainPc = "config"
    /\ ~Not(app_config.openai_api_key)
    /\ ~Not(app_config.replicate_api_token)
    /\ mainPc' = "init"
    /\ UNCHANGED <<run_command, unit, app_config, command, commandNo, outcome, stopped>>
    /\ UNCHANGED engineVars

InitRaisesAndContinues ==
    /\ mainPc = "init"
    /\ \E e \in InitializeServices(app_config) \ {"ok"} :
         /\ mainPc' = "mode"
         /\ stopped' = "init"
    /\ UNCHANGED <<run_command, unit, app_config, command, commandNo, outcome>>
    /\ UNCHANGED engineVars

InitRaises ==
    /\ mainPc = "init"
    /\ \E e \in InitializeServices(app_config) \ {"ok"} : Return("init")
    /\ UNCHANGED <<run_command, unit, app_config, command, commandNo, outcome>>
    /\ UNCHANGED engineVars

InitReturns ==
    /\ mainPc = "init"
    /\ "ok" \in InitializeServices(app_config)
    /\ mainPc' = "mode"
    /\ UNCHANGED <<run_command, unit, app_config, command, commandNo, outcome, stopped>>
    /\ UNCHANGED engineVars

(***************************************************************************)
(* main.py: run mode.  Orchestrator.run is awaited: main is at "run" until *)
(* it has returned or raised.                                              *)
(***************************************************************************)
UserCommands == {"", "quit", "EXIT", "open notes"}

(* str.lower() on what the user types. *)
LowerCommand(user_command) ==
    CASE user_command = "EXIT" -> "exit"
      [] OTHER -> user_command

(* orchestrator.run(command) is entered: the engine starts from Idle. *)
EnterRun(user_command) ==
    /\ mainPc' = "run"
    /\ run_command' = user_command
    /\ commandNo' = commandNo + 1
    /\ engineState' = "Idle"
    /\ stepIndex' = 0
    /\ pc' = "received"
    /\ rawPlan' = <<>>
    /\ plan' = <<>>
    /\ errors' = {}
    /\ cause' = None
    /\ message' = None
    /\ calls' = <<>>
    /\ injected' = <<>>

(* orchestrator.run is left: plan and step index lived for one command. *)
LeaveRun ==
    /\ engineState' = "Idle"
    /\ stepIndex' = 0
    /\ pc' = "idle"
    /\ rawPlan' = <<>>
    /\ plan' = <<>>
    /\ errors' = {}
    /\ cause' = None
    /\ message' = None
    /\ calls' = <<>>
    /\ injected' = <<>>

SingleCommand ==
    /\ mainPc = "mode"
    /\ ~Not(command)
    /\ EnterRun(command[1])
    /\ UNCHANGED <<unit, app_config, command, outcome, stopped>>

Interactive ==
    /\ mainPc = "mode"
    /\ Not(command)
    /\ mainPc' = "prompt"
    /\ UNCHANGED <<run_command, unit, app_config, command, commandNo, outcome, stopped>>
    /\ UNCHANGED engineVars

Quit ==
    /\ mainPc = "prompt"
    /\ \E user_command \in UserCommands :
         /\ LowerCommand(user_command) \in {"quit", "exit"}
         /\ Return("quit")
    /\ UNCHANGED <<run_command, unit, app_config, command, commandNo, outcome>>
    /\ UNCHANGED engineVars

EmptyCommand ==
    /\ mainPc = "prompt"
    /\ \E user_command \in UserCommands :
         /\ LowerCommand(user_command) \notin {"quit", "exit"}
         /\ user_command = ""
    /\ UNCHANGED mainVars
    /\ UNCHANGED engineVars

ReadCommandWithoutAwait ==
    /\ mainPc \in {"prompt", "run"}
    /\ commandNo < MaxCommands
    /\ \E user_command \in UserCommands :
         /\ LowerCommand(user_command) \notin {"quit", "exit"}
         /\ user_command # ""
         /\ EnterRun(user_command)
    /\ UNCHANGED <<unit, app_config, command, outcome, stopped>>

ReadCommand ==
    /\ mainPc = "prompt"
    /\ commandNo < MaxCommands
    /\ \E user_command \in UserCommands :
         /\ LowerCommand(user_command) \notin {"quit", "exit"}
         /\ user_command # ""
         /\ EnterRun(user_command)
    /\ UNCHANGED <<unit, app_config, command, outcome, stopped>>

(* run returned its outcome: the next prompt, or the end in single-command *)
(* mode.                                                                   *)
RunReturns ==
    /\ mainPc = "run"
    /\ pc = "done"
    /\ outcome' = engineState
    /\ IF Not(command)
       THEN mainPc' = "prompt" /\ UNCHANGED stopped
       ELSE Return("single")
    /\ LeaveRun
    /\ UNCHANGED <<run_command, unit, app_config, command, commandNo>>

RunRaisesEndsLoop ==
    /\ mainPc = "run"
    /\ pc = "done"
    /\ engineState \in {"Failed", "Aborted"}
    /\ outcome' = "Raised"
    /\ Return("error")
    /\ LeaveRun
    /\ UNCHANGED <<run_command, unit, app_config, command, commandNo>>

(* run raised instead: "except Exception" prints it and prompts again; in  *)
(* single-command mode it leaves main.                                     *)
RunRaises ==
    /\ mainPc = "run"
    /\ pc = "done"
    /\ engineState \in {"Failed", "Aborted"}
    /\ outcome' = "Raised"
    /\ IF Not(command)
       THEN mainPc' = "prompt" /\ UNCHANGED stopped
       ELSE Return("single")
    /\ LeaveRun
    /\ UNCHANGED <<run_command, unit, app_config, command, commandNo>>

(* Ctrl+C at the prompt or during run ends main; what a step in flight     *)
(* has done to the desktop stays done.                                     *)
KeyboardInterrupt ==
    /\ mainPc \in {"prompt", "run"}
    /\ Return("interrupt")
    /\ pc' = IF mainPc = "run" THEN "interrupted" ELSE pc
    /\ UNCHANGED <<run_command, unit, app_config, command, commandNo, outcome>>
    /\ UNCHANGED <<engineState, stepIndex, rawPlan, plan, errors, cause,
                   message, calls, injected>>

(* Orchestrator.run, one command. *)
Next ==
    \/ StartRunning
    \/ GeneratePlanReturns
    \/ GeneratePlanRaises
    \/ PlanExhausted
    \/ TaskComplete
    \/ TaskFailed
    \/ FindApp
    \/ Unresolvable
    \/ CaptureForGrounding
    \/ CaptureReturns
    \/ CaptureRaises
    \/ GroundingFound
    \/ GroundingNotFound
    \/ GroundingRaises
    \/ Dispatch
    \/ OperationReturns
    \/ OperationRaises
    \/ AnalysisReturns
    \/ AnalysisRaises

Spec == Init /\ [][Next]_vars

(* One command whose every awaited call (planning, screenshot capture,     *)
(* vision analysis, input injection) returns or raises, on an engine that  *)
(* takes its next step whenever it has one.                                *)
ShortInit ==
    /\ engineState = "Idle"
    /\ stepIndex = 0
    /\ pc = "received"
    /\ rawPlan = <<>>
    /\ plan = <<>>
    /\ errors = {}
    /\ cause = None
    /\ message = None
    /\ calls = <<>>
    /\ injected = <<>>
    /\ mainPc = "run"
    /\ app_config = [openai_api_key |-> Some("sk-1"),
                     replicate_api_token |-> Some("r8-1"),
                     replicate_deployment_owner |-> "rapidstart",
                     replicate_deployment_name |-> "omni-dev"]
    /\ command = Some("open notes")
    /\ commandNo = 1
    /\ outcome = ""
    /\ stopped = ""
    /\ run_command = "open notes"
    /\ unit = NoCall

FairSpec == ShortInit /\ [][Next]_vars /\ WF_vars(Next)

(* main: the whole session. *)
MainNext ==
    \/ ConfigMissing
    \/ ConfigPresent
    \/ InitRaises
    \/ InitReturns
    \/ SingleCommand
    \/ Interactive
    \/ Quit
    \/ EmptyCommand
    \/ ReadCommand
    \/ RunReturns
    \/ RunRaises
    \/ KeyboardInterrupt
    \/ Next

MainSpec == MainInit /\ [][MainNext]_vars

(***************************************************************************)
(* The models called directly, outside a session.                          *)
(***************************************************************************)
MaxCoord == 3

MaxPolls == 3

Coords == -1..MaxCoord

BoxArgs ==
    {<<a, b, c, d>> : a \in Coords, b \in Coords, c \in Coords, d \in Coords}
       \cup {<<10, 20, 30, 40>>, <<0, 0, 100, 200>>, <<30, 20, 30, 40>>,
             <<10, -20, 30, 40>>}

(* Raw steps given to the validator directly. *)
UnitRaw ==
    RawSamples \cup
    { [action |-> "WAIT", duration_ms |-> 0],
      [action |-> "WAIT", duration_ms |-> 250, reason |-> "page load"],
      [action |-> "WAIT", duration_ms |-> -250],
      [action |-> "WAIT", nulls |-> {"reason"}],
      [action |-> "WAIT", nulls |-> {"duration_ms"}],
      [action |-> "SCROLL", direction |-> "up"],
      [action |-> "SCROLL", direction |-> "left", amount |-> 3],
      [action |-> "SCROLL", direction |-> "right", amount |-> -3],
      [action |-> "SCROLL", direction |-> "diagonal"],
      [action |-> "SCROLL", direction |-> "Down"],
      [action |-> "SCROLL", amount |-> 3],
      [action |-> "SCROLL", nulls |-> {"direction"}],
      [action |-> "TYPE_TEXT", text |-> "hi", interval |-> 50],
      [action |-> "TYPE_TEXT", interval |-> 50],
      [action |-> "OPEN_APPLICATION", application_name |-> "notes"],
      [action |-> "OPEN_APPLICATION"],
      [action |-> "NAVIGATE_TO_WEBSITE", url |-> "example.org"],
      [action |-> "NAVIGATE_TO_WEBSITE"],
      [action |-> "ANALYZE_SCREENSHOT"],
      [action |-> "PRESS_KEY"],
      [action |-> "FIND_APP"],
      [action |-> "MOVE_MOUSE", x |-> 1, y |-> 2],
      [action |-> "MOVE_MOUSE", x |-> 1, y |-> 2, duration |-> -200],
      [action |-> "MOVE_MOUSE", x |-> 1],
      [action |-> "TASK_COMPLETE", success |-> FALSE],
      [action |-> "TASK_COMPLETE"],
      [action |-> "TASK_FAILED", success |-> TRUE],
      [action |-> "TASK_FAILED", success |-> FALSE, reason |-> "gave up"],
      [x |-> 1, y |-> 2],
      [message |-> "done"],
      [description |-> "Save button"] }

UnitCalls ==
    {[call |-> "BoundingBox", args |-> a, pc |-> "called", out |-> None] :
        a \in BoxArgs}
    \cup {[call |-> "validate_python", args |-> <<r>>, pc |-> "called",
           out |-> None] : r \in UnitRaw}
    \cup {[call |-> "analyze_image", args |-> <<client>>, pc |-> "called",
           out |-> None, status |-> "", polls |-> 0, error |-> "",
           raisedBy |-> "", job |-> ""] : client \in BOOLEAN}

UnitUnchanged ==
    /\ UNCHANGED engineVars
    /\ UNCHANGED <<mainPc, app_config, command, commandNo, outcome, stopped,
                   run_command>>

BoundingBoxReturns ==
    /\ unit.call = "BoundingBox"
    /\ unit.pc = "called"
    /\ LET a == unit.args
           box == BoundingBox(a[1], a[2], a[3], a[4])
       IN  /\ box # None
           /\ unit' = [unit EXCEPT !.pc = "returned", !.out = box]
    /\ UnitUnchanged

BoundingBoxRaises ==
    /\ unit.call = "BoundingBox"
    /\ unit.pc = "called"
    /\ LET a == unit.args
       IN  BoundingBox(a[1], a[2], a[3], a[4]) = None
    /\ unit' = [unit EXCEPT !.pc = "raised"]
    /\ UnitUnchanged

(* bbox.calculate_center() on a box that was constructed. *)
CalculateCenter ==
    /\ unit.call = "BoundingBox"
    /\ unit.pc = "returned"
    /\ unit' = [call |-> "calculate_center", args |-> <<unit.out[1]>>,
                pc |-> "returned",
                out |-> Some(calculate_center(unit.out[1]))]
    /\ UnitUnchanged

(* action_adapter.validate_python(step) on one raw step. *)
ValidateReturns ==
    /\ unit.call = "validate_python"
    /\ unit.pc = "called"
    /\ LET v == validate_python(unit.args[1])
       IN  /\ v.ok
           /\ unit' = [unit EXCEPT !.pc = "returned", !.out = Some(v.value)]
    /\ UnitUnchanged

ValidateRaises ==
    /\ unit.call = "validate_python"
    /\ unit.pc = "called"
    /\ ~validate_python(unit.args[1]).ok
    /\ unit' = [unit EXCEPT !.pc = "raised"]
    /\ UnitUnchanged

(* The validated action is serialized back to its raw form. *)
ModelDump ==
    /\ unit.call = "validate_python"
    /\ unit.pc = "returned"
    /\ \E exclude_none \in BOOLEAN :
         unit' = [call |-> "model_dump", args |-> <<unit.out[1]>>,
                  pc |-> "returned",
                  out |-> Some(model_dump(unit.out[1], exclude_none))]
    /\ UnitUnchanged

(* ... and the raw form is validated again. *)
Revalidate ==
    /\ unit.call = "model_dump"
    /\ unit' = [call |-> "revalidate", args |-> <<unit.args[1], unit.out[1]>>,
                pc |-> "returned",
                out |-> Some(validate_python(unit.out[1]))]
    /\ UnitUnchanged

(***************************************************************************)
(* ReplicateVLMService.analyze_image: the prediction is created, then      *)
(* polled once a second until its status is succeeded, failed or canceled. *)
(***************************************************************************)
OutputKinds == {"dict", "none", "list"}

(* What analyze_image returns for final_prediction.output: the output     *)
(* when it is a dictionary, {} when it is empty or None, and the output   *)
(* under raw_output when it is anything else.                             *)
AnalysesOf(kind) ==
    CASE kind = "dict" -> Analyses
      [] kind = "none" -> {<<>>}
      [] kind = "list" -> {[raw_output |-> <<"icon", "Save">>]}

RaiseVLMError(by) ==
    unit' = [unit EXCEPT !.pc = "raised", !.error = "VLMError", !.raisedBy = by]

AnalyzeClientMissing ==
    /\ unit.call = "analyze_image"
    /\ unit.pc = "called"
    /\ ~unit.args[1]
    /\ RaiseVLMError("client")
    /\ UnitUnchanged

PredictionCreateReturns ==
    /\ unit.call = "analyze_image"
    /\ unit.pc = "called"
    /\ unit.args[1]
    /\ unit' = [unit EXCEPT !.pc = "poll", !.status = "starting",
                            !.job = "starting"]
    /\ UnitUnchanged

PredictionCreateRaises ==
    /\ unit.call = "analyze_image"
    /\ unit.pc = "called"
    /\ unit.args[1]
    /\ RaiseVLMError("create")
    /\ UnitUnchanged

(* The remote job, which runs on its own: starting, then processing, then *)
(* succeeded, failed or canceled; it may also stay where it is.            *)
JobProgresses ==
    /\ unit.call = "analyze_image"
    /\ unit.pc \in {"poll", "sleep"}
    /\ unit.job \in {"starting", "processing"}
    /\ \E status \in {"processing", "succeeded", "failed", "canceled"} :
         /\ status # unit.job
         /\ unit' = [unit EXCEPT !.job = status]
    /\ UnitUnchanged

PredictionPendingWithCeiling ==
    /\ unit.call = "analyze_image"
    /\ unit.pc = "poll"
    /\ unit.job \in {"starting", "processing"}
    /\ unit.polls < MaxPolls
    /\ unit' = [unit EXCEPT !.pc = "sleep", !.status = unit.job,
                            !.polls = unit.polls + 1]
    /\ UnitUnchanged

(* predictions.get returns a status that is not terminal: the loop goes on *)
(* to sleep, however often it has polled.  polls counts the polls up to    *)
(* MaxPolls and stays there.                                               *)
PredictionPending ==
    /\ unit.call = "analyze_image"
    /\ unit.pc = "poll"
    /\ unit.job \in {"starting", "processing"}
    /\ unit' = [unit EXCEPT !.pc = "sleep", !.status = unit.job,
                            !.polls = IF unit.polls < MaxPolls
                                      THEN unit.polls + 1
                                      ELSE MaxPolls]
    /\ UnitUnchanged

SleepReturns ==
    /\ unit.call = "analyze_image"
    /\ unit.pc = "sleep"
    /\ unit' = [unit EXCEPT !.pc = "poll"]
    /\ UnitUnchanged

PredictionGetRaises ==
    /\ unit.call = "analyze_image"
    /\ unit.pc = "poll"
    /\ RaiseVLMError("get")
    /\ UnitUnchanged

PredictionSucceeded ==
    /\ unit.call = "analyze_image"
    /\ unit.pc = "poll"
    /\ unit.job = "succeeded"
    /\ \E kind \in OutputKinds :
         \E output \in AnalysesOf(kind) :
            unit' = [unit EXCEPT !.pc = "returned", !.status = "succeeded",
                                 !.out = Some(output)]
    /\ UnitUnchanged

PredictionFailedReturnsOutput ==
    /\ unit.call = "analyze_image"
    /\ unit.pc = "poll"
    /\ unit.job \in {"failed", "canceled"}
    /\ \E kind \in OutputKinds :
         \E output \in AnalysesOf(kind) :
            unit' = [unit EXCEPT !.pc = "returned", !.status = unit.job,
                                 !.out = Some(output)]
    /\ UnitUnchanged

(* A terminal status other than succeeded: VLMError. *)
PredictionFailed ==
    /\ unit.call = "analyze_image"
    /\ unit.pc = "poll"
    /\ unit.job \in {"failed", "canceled"}
    /\ unit' = [unit EXCEPT !.pc = "raised", !.status = unit.job,
                            !.error = "VLMError", !.raisedBy = "status"]
    /\ UnitUnchanged

(***************************************************************************)
(* OpenAIService.generate_plan: the chat completion's message content is   *)
(* parsed as JSON and the list under its "plan" key is returned.           *)
(***************************************************************************)
WaitStep == [action |-> "WAIT"]
DoneStep == [action |-> "TASK_COMPLETE", message |-> "done"]

(* response.choices[0].message.content: None, or a text. *)
ResponseContents ==
    { None,
      Some(""),
      Some("Sure, first wait, then finish."),
      Some("{\"plan\": [{\"action\": \"WAIT\"}"),
      Some("null"),
      Some("[{\"action\": \"WAIT\"}]"),
      Some("{}"),
      Some("{\"steps\": [{\"action\": \"WAIT\"}]}"),
      Some("{\"plan\": null}"),
      Some("{\"plan\": \"WAIT\"}"),
      Some("{\"plan\": {\"action\": \"WAIT\"}}"),
      Some("{\"plan\": []}"),
      Some("{\"plan\": [{\"action\": \"WAIT\"}]}"),
      Some("{\"plan\": [{\"action\": \"WAIT\"}, {\"action\": \"TASK_COMPLETE\", \"message\": \"done\"}]}"),
      Some("{\"plan\": [{\"action\": \"TASK_COMPLETE\", \"message\": \"done\"}, {\"action\": \"WAIT\"}]}"),
      Some("{\"plan\": [{\"action\": \"WAIT\"}], \"note\": \"short\"}"),
      Some("{\"plan\": [\"WAIT\"]}") }

(* A parsed JSON value: its type, whether an object holds the key "plan",  *)
(* the type of the value under it, and that value's items when a list.     *)
JsonValue(type, has_plan, plan_type, items) ==
    [type |-> type, has_plan |-> has_plan, plan_type |-> plan_type,
     items |-> items]

JSONDecodeError == JsonValue("JSONDecodeError", FALSE, "", <<>>)

(* json.loads on the texts above. *)
json_loads(text) ==
    CASE text = "null" -> JsonValue("null", FALSE, "", <<>>)
      [] text = "[{\"action\": \"WAIT\"}]" ->
            JsonValue("list", FALSE, "", <<WaitStep>>)
      [] text = "{}" -> JsonValue("dict", FALSE, "", <<>>)
      [] text = "{\"steps\": [{\"action\": \"WAIT\"}]}" ->
            JsonValue("dict", FALSE, "", <<>>)
      [] text = "{\"plan\": null}" -> JsonValue("dict", TRUE, "null", <<>>)
      [] text = "{\"plan\": \"WAIT\"}" -> JsonValue("dict", TRUE, "str", <<>>)
      [] text = "{\"plan\": {\"action\": \"WAIT\"}}" ->
            JsonValue("dict", TRUE, "dict", <<>>)
      [] text = "{\"plan\": []}" -> JsonValue("dict", TRUE, "list", <<>>)
      [] text = "{\"plan\": [{\"action\": \"WAIT\"}]}" ->
            JsonValue("dict", TRUE, "list", <<WaitStep>>)
      [] text = "{\"plan\": [{\"action\": \"WAIT\"}, {\"action\": \"TASK_COMPLETE\", \"message\": \"done\"}]}" ->
            JsonValue("dict", TRUE, "list", <<WaitStep, DoneStep>>)
      [] text = "{\"plan\": [{\"action\": \"TASK_COMPLETE\", \"message\": \"done\"}, {\"action\": \"WAIT\"}]}" ->
            JsonValue("dict", TRUE, "list", <<DoneStep, WaitStep>>)
      [] text = "{\"plan\": [{\"action\": \"WAIT\"}], \"note\": \"short\"}" ->
            JsonValue("dict", TRUE, "list", <<WaitStep>>)
      [] text = "{\"plan\": [\"WAIT\"]}" ->
            JsonValue("dict", TRUE, "list", <<"WAIT">>)
      [] OTHER -> JSONDecodeError

(* isinstance(response_data, dict) and "plan" in response_data and         *)
(* isinstance(response_data["plan"], list)                                 *)
HasPlanListAnywhere(response_data) ==
    response_data.type \in {"dict", "list"}
       /\ (response_data.type = "dict" =>
              response_data.has_plan /\ response_data.plan_type = "list")

HasPlanList(response_data) ==
    /\ response_data.type = "dict"
    /\ response_data.has_plan
    /\ response_data.plan_type = "list"

RaiseLLMError(by) ==
    unit' = [unit EXCEPT !.pc = "raised", !.error = "LLMError", !.raisedBy = by]

PlannerCalls ==
    {[call |-> "generate_plan", args |-> <<client, system_prompt>>,
      pc |-> "called", out |-> None, content |-> None, error |-> "",
      raisedBy |-> ""] : client \in BOOLEAN, system_prompt \in BOOLEAN}

(* The client or the system prompt is missing. *)
PlannerNotReady ==
    /\ unit.call = "generate_plan"
    /\ unit.pc = "called"
    /\ ~unit.args[1] \/ ~unit.args[2]
    /\ RaiseLLMError(IF ~unit.args[1] THEN "client" ELSE "system_prompt")
    /\ UnitUnchanged

(* chat.completions.create raises: an openai.APIError or anything else. *)
CompletionRaises ==
    /\ unit.call = "generate_plan"
    /\ unit.pc = "called"
    /\ unit.args[1] /\ unit.args[2]
    /\ \E e \in {"APIError", "Exception"} : RaiseLLMError(e)
    /\ UnitUnchanged

CompletionReturns ==
    /\ unit.call = "generate_plan"
    /\ unit.pc = "called"
    /\ unit.args[1] /\ unit.args[2]
    /\ \E content \in ResponseContents :
         unit' = [unit EXCEPT !.pc = "response", !.content = content]
    /\ UnitUnchanged

(* if not raw_response_content *)
ContentEmpty ==
    /\ unit.call = "generate_plan"
    /\ unit.pc = "response"
    /\ unit.content \in {None, Some("")}
    /\ RaiseLLMError("empty")
    /\ UnitUnchanged

ContentNotJson ==
    /\ unit.call = "generate_plan"
    /\ unit.pc = "response"
    /\ unit.content \notin {None, Some("")}
    /\ json_loads(unit.content[1]) = JSONDecodeError
    /\ RaiseLLMError("json")
    /\ UnitUnchanged

PlanStructureInvalid ==
    /\ unit.call = "generate_plan"
    /\ unit.pc = "response"
    /\ unit.content \notin {None, Some("")}
    /\ json_loads(unit.content[1]) # JSONDecodeError
    /\ ~HasPlanList(json_loads(unit.content[1]))
    /\ RaiseLLMError("structure")
    /\ UnitUnchanged

(* return raw_plan *)
PlanReturned ==
    /\ unit.call = "generate_plan"
    /\ unit.pc = "response"
    /\ unit.content \notin {None, Some("")}
    /\ json_loads(unit.content[1]) # JSONDecodeError
    /\ HasPlanList(json_loads(unit.content[1]))
    /\ unit' = [unit EXCEPT !.pc = "returned",
                            !.out = Some(json_loads(unit.content[1]).items)]
    /\ UnitUnchanged

(***************************************************************************)
(* The controller's operations called directly.                            *)
(***************************************************************************)
ControlCall(op, args) ==
    [call |-> op, args |-> args, pc |-> "called", out |-> None, error |-> "",
     inject |-> <<>>, issued |-> 0]

PointerCalls ==
    {ControlCall(op, <<x, y>>) : op \in {"click", "double_click"},
                                 x \in -1..ScreenWidth, y \in -1..ScreenHeight}

MoveCalls ==
    {ControlCall("move_mouse", <<x, y, duration>>) :
        x \in -1..ScreenWidth, y \in -1..ScreenHeight, duration \in {0, 200}}

KeyCalls ==
    {ControlCall("press_key", <<key_name>>) :
        key_name \in {"enter", "Enter", "TAB", "esc", "f5", "save", ""}}

ScrollCalls ==
    {ControlCall("scroll", <<[direction |-> direction, amount |-> amount]>>) :
        direction \in {"up", "down", "left", "right", "Up", "diagonal", ""},
        amount \in {-3, 0, 1, 3}}

ControlOps == {"click", "double_click", "move_mouse", "press_key", "scroll"}

ControlOutcomes(c) ==
    CASE c.call = "click" -> click(c.args[1], c.args[2])
      [] c.call = "double_click" -> double_click(c.args[1], c.args[2])
      [] c.call = "move_mouse" -> move_mouse(c.args[1], c.args[2], c.args[3])
      [] c.call = "press_key" -> press_key(c.args[1])
      [] c.call = "scroll" -> scroll(c.args[1].direction, c.args[1].amount)

ControlReturns ==
    /\ unit.call \in ControlOps
    /\ unit.pc = "called"
    /\ \E o \in ControlOutcomes(unit) :
         /\ ~o.raises
         /\ unit' = [unit EXCEPT !.pc = "returned", !.inject = o.inject,
                                 !.issued = o.issued]
    /\ UnitUnchanged

ControlRaises ==
    /\ unit.call \in ControlOps
    /\ unit.pc = "called"
    /\ \E o \in ControlOutcomes(unit) :
         /\ o.raises
         /\ unit' = [unit EXCEPT !.pc = "raised", !.error = o.error,
                                 !.inject = o.inject, !.issued = o.issued]
    /\ UnitUnchanged

(* BoundingBox.from_list called directly with a list of any length. *)
FromListCalls ==
    {[call |-> "from_list", args |-> <<coords>>, pc |-> "called",
      out |-> None] :
        coords \in BoxArgs \cup {<<>>, <<1>>, <<0, 1>>, <<0, 0, 1>>,
                                 <<10, 20, 30>>, <<0, 0, 1, 1, 2>>,
                                 <<10, 20, 30, 40, 50>>,
                                 <<0, 0, 1, 1, 2, 2>>}}

FromListReturns ==
    /\ unit.call = "from_list"
    /\ unit.pc = "called"
    /\ from_list(unit.args[1]) # None
    /\ unit' = [unit EXCEPT !.pc = "returned", !.out = from_list(unit.args[1])]
    /\ UnitUnchanged

FromListRaises ==
    /\ unit.call = "from_list"
    /\ unit.pc = "called"
    /\ from_list(unit.args[1]) = None
    /\ unit' = [unit EXCEPT !.pc = "raised"]
    /\ UnitUnchanged

UnitInit ==
    /\ EngineIdle
    /\ mainPc = "config"
    /\ app_config \in {c \in AppConfig : c.openai_api_key = None
                                           /\ c.replicate_api_token = None}
    /\ command = None
    /\ commandNo = 0
    /\ outcome = ""
    /\ stopped = ""
    /\ run_command = ""
    /\ \/ unit \in UnitCalls
       \/ unit \in PlannerCalls
       \/ unit \in PointerCalls
       \/ unit \in MoveCalls
       \/ unit \in KeyCalls
       \/ unit \in ScrollCalls
       \/ unit \in FromListCalls

UnitNext ==
    \/ BoundingBoxReturns
    \/ BoundingBoxRaises
    \/ CalculateCenter
    \/ ValidateReturns
    \/ ValidateRaises
    \/ ModelDump
    \/ Revalidate
    \/ AnalyzeClientMissing
    \/ PredictionCreateReturns
    \/ PredictionCreateRaises
    \/ JobProgresses
    \/ PredictionPending
    \/ SleepReturns
    \/ PredictionGetRaises
    \/ PredictionSucceeded
    \/ PredictionFailed
    \/ PlannerNotReady
    \/ CompletionRaises
    \/ CompletionReturns
    \/ ContentEmpty
    \/ ContentNotJson
    \/ PlanStructureInvalid
    \/ PlanReturned
    \/ ControlReturns
    \/ ControlRaises
    \/ FromListReturns
    \/ FromListRaises

UnitSpec == UnitInit /\ [][UnitNext]_vars

(* Every predictions.get and every asyncio.sleep(1) that analyze_image     *)
(* awaits returns or raises; nothing is assumed of the remote job.         *)
PollStep ==
    \/ PredictionPending
    \/ PredictionSucceeded
    \/ PredictionFailed
    \/ PredictionGetRaises

FairUnitSpec ==
    UnitSpec /\ WF_vars(PollStep) /\ WF_vars(SleepReturns)


(***************************************************************************)
(* Vocabulary of the properties.                                           *)
(***************************************************************************)
Tags == {AnyAction[k].tag : k \in DOMAIN AnyAction}

TagOf(r) == IF "action" \in DOMAIN r THEN r.action ELSE "(missing)"

Unrecognized(r) == TagOf(r) \notin Tags

RawValid == InvalidSteps(rawPlan) = {}

RawMessage(r) == IF "message" \in DOMAIN r THEN Some(r.message) ELSE None

RawDescriptionOnly(r) ==
    /\ TagOf(r) \in {"CLICK", "DOUBLE_CLICK"}
    /\ "description" \in DOMAIN r
    /\ ~({"x", "y"} \subseteq DOMAIN r)

RawUnresolvable(r) ==
    /\ TagOf(r) \in {"CLICK", "DOUBLE_CLICK"}
    /\ "description" \notin DOMAIN r
    /\ ~({"x", "y"} \subseteq DOMAIN r)

DesktopOps ==
    {"click", "double_click", "type_text", "press_key", "move_mouse", "scroll",
     "open_application", "navigate_url", "take_screenshot"}

(* The operations the engine may call for a step of a given kind. *)
ExpectedOps(tag) ==
    CASE tag = "CLICK" -> {"take_screenshot", "click"}
      [] tag = "DOUBLE_CLICK" -> {"take_screenshot", "double_click"}
      [] tag = "TYPE_TEXT" -> {"type_text"}
      [] tag = "PRESS_KEY" -> {"press_key"}
      [] tag = "MOVE_MOUSE" -> {"move_mouse"}
      [] tag = "SCROLL" -> {"scroll"}
      [] tag = "OPEN_APPLICATION" -> {"open_application"}
      [] tag = "NAVIGATE_TO_WEBSITE" -> {"navigate_url"}
      [] tag = "TAKE_SCREENSHOT" -> {"take_screenshot"}
      [] tag = "ANALYZE_SCREENSHOT" -> {"take_screenshot", "analyze_image"}
      [] tag = "WAIT" -> {"sleep"}
      [] tag = "(missing)" -> DesktopOps \cup {"sleep", "analyze_image"}
      [] OTHER -> {}

CallsOf(i) == {k \in DOMAIN calls : calls[k].step = i}

(* Step i (from 0) of the raw plan has been dispatched. *)
Dispatched(i) ==
    \/ TagOf(rawPlan[i + 1]) \in {"FIND_APP", "(missing)"}
    \/ \E k \in CallsOf(i) :
          /\ calls[k].by = "engine"
          /\ calls[k].op \in ExpectedOps(TagOf(rawPlan[i + 1]))

(* The failure report says something of raw step i: its errors, under the *)
(* step's index or under none.                                            *)
Reports(errs, raw, i) ==
    LET own == action_adapter[raw[i]].errors
    IN  /\ own # {}
        /\ \/ own \subseteq errs
           \/ {[loc |-> <<"steps", i - 1>> \o e.loc, type |-> e.type] : e \in own}
                 \subseteq errs


(***************************************************************************)
(* C1.  Validation is eager: no collaborator is called, no input is        *)
(* injected and the engine is not Running unless every step of the raw     *)
(* list validates (and then the plan has one action per raw step); when    *)
(* some step is invalid the command ends Aborted with nothing executed.    *)
(***************************************************************************)
C1_EagerValidation ==
    /\ (calls # <<>> \/ injected # <<>> \/ engineState = "Running")
          => (RawValid /\ Len(plan) = Len(rawPlan))
    /\ ~RawValid
          => /\ engineState = "Aborted"
             /\ calls = <<>>
             /\ injected = <<>>
             /\ stepIndex = 0
             /\ plan = <<>>

(* A list whose first step is a valid TYPE_TEXT and whose second step is  *)
(* invalid was rejected with nothing executed.                            *)
C1_Witness ==
    /\ pc = "done"
    /\ Len(rawPlan) >= 2
    /\ TagOf(rawPlan[1]) = "TYPE_TEXT"
    /\ 1 \notin InvalidSteps(rawPlan)
    /\ 2 \in InvalidSteps(rawPlan)
    /\ engineState = "Aborted"
    /\ calls = <<>>

(***************************************************************************)
(* C2.  Every raw step list holding a record whose 'action' is missing or  *)
(* is not a recognized kind is rejected, and the failure reports that      *)
(* record.  (The code accepts a record without 'action': the field has a   *)
(* default in every class and the Union declares no discriminator.)        *)
(***************************************************************************)
C2_UnrecognizedRejected ==
    \A i \in DOMAIN rawPlan :
        Unrecognized(rawPlan[i])
            => /\ engineState = "Aborted"
               /\ Reports(errors, rawPlan, i)

(***************************************************************************)
(* C3.  A failed validation reports every invalid step of the list, not    *)
(* only the first.  (The step-by-step validation raises at the first       *)
(* invalid step, and the error it raises is that step's alone.)            *)
(***************************************************************************)
C3_EveryInvalidStepReported ==
    \A i \in InvalidSteps(rawPlan) : Reports(errors, rawPlan, i)


(***************************************************************************)
(* C4.  A TaskComplete at position i of a validated plan ends the command: *)
(* the engine never goes past it, nothing is ever called for that step or  *)
(* a later one, and the command that stops there is Completed.             *)
(***************************************************************************)
C4_TaskCompleteStops ==
    \A i \in DOMAIN rawPlan :
        (RawValid /\ TagOf(rawPlan[i]) = "TASK_COMPLETE")
            => /\ stepIndex <= i - 1
               /\ \A k \in DOMAIN calls : calls[k].step < i - 1
               /\ (pc = "done" /\ stepIndex = i - 1)
                     => /\ engineState = "Completed"
                        /\ message = RawMessage(rawPlan[i])

(* Completed at a TaskComplete that is not the last step, after a step    *)
(* that called the desktop.                                               *)
C4_Witness ==
    /\ engineState = "Completed"
    /\ stepIndex + 1 < Len(plan)
    /\ plan[stepIndex + 1].action = "TASK_COMPLETE"
    /\ calls # <<>>

(***************************************************************************)
(* C5.  A TaskFailed at position i of a validated plan ends the command in *)
(* Failed with the action's message as cause: the engine never goes past   *)
(* it, nothing is called for that step or a later one, and a plan that     *)
(* starts with TaskFailed calls nothing and injects nothing.               *)
(***************************************************************************)
C5_TaskFailedStops ==
    \A i \in DOMAIN rawPlan :
        (RawValid /\ TagOf(rawPlan[i]) = "TASK_FAILED")
            => /\ stepIndex <= i - 1
               /\ \A k \in DOMAIN calls : calls[k].step < i - 1
               /\ (pc = "done" /\ stepIndex = i - 1)
                     => /\ engineState = "Failed"
                        /\ cause = RawMessage(rawPlan[i])
               /\ i = 1 => (calls = <<>> /\ injected = <<>>)

(* The plan [TaskFailed("cannot find app")] has ended. *)
C5_Witness ==
    /\ pc = "done"
    /\ rawPlan = <<[action |-> "TASK_FAILED", message |-> "cannot find app"]>>
    /\ engineState = "Failed"
    /\ cause = Some("cannot find app")
    /\ injected = <<>>

(***************************************************************************)
(* C6.  A validated plan of n steps with no TaskComplete and no TaskFailed *)
(* whose steps all succeed (every call returned, every grounding found its *)
(* target, no click was unresolvable) ends Completed with no message after *)
(* all n steps were dispatched; and no such plan is Completed before its   *)
(* n-th step.                                                              *)
(***************************************************************************)
C6_NoTerminal ==
    \A i \in DOMAIN rawPlan : TagOf(rawPlan[i]) \notin {"TASK_COMPLETE", "TASK_FAILED"}

C6_AllSucceeded ==
    /\ \A k \in DOMAIN calls :
          /\ calls[k].result = "ok"
          /\ calls[k].by = "resolver" => "bounding_box" \in DOMAIN calls[k].out[1]
    /\ \A i \in DOMAIN rawPlan : ~RawUnresolvable(rawPlan[i])

C6_ImplicitSuccess ==
    /\ (pc = "done" /\ RawValid /\ cause # Some("LLMError")
            /\ C6_NoTerminal /\ C6_AllSucceeded)
          => /\ engineState = "Completed"
             /\ message = None
             /\ stepIndex = Len(rawPlan)
             /\ \A i \in 0..(Len(rawPlan) - 1) : Dispatched(i)
    /\ (engineState = "Completed" /\ C6_NoTerminal)
          => stepIndex = Len(rawPlan)

(* A plan of MaxPlanLen steps, each calling the desktop, ran to its end. *)
C6_Witness ==
    /\ engineState = "Completed"
    /\ C6_NoTerminal
    /\ Len(rawPlan) = MaxPlanLen
    /\ \A i \in 0..(Len(rawPlan) - 1) : CallsOf(i) # {}
    /\ message = None

(***************************************************************************)
(* C7.  When the analysis returned for a grounding query holds no bounding *)
(* box (target not found), the command is Failed with a cause at that      *)
(* step, and that query is the last call ever made: no click or            *)
(* double-click follows it and no later step is dispatched.                *)
(***************************************************************************)
C7_NotFoundFails ==
    \A k \in DOMAIN calls :
        (/\ calls[k].by = "resolver"
         /\ calls[k].result = "ok"
         /\ "bounding_box" \notin DOMAIN calls[k].out[1])
            => /\ k = Len(calls)
               /\ pc = "done"
               /\ engineState = "Failed"
               /\ cause # None
               /\ stepIndex = calls[k].step
               /\ \A j \in CallsOf(calls[k].step) :
                     calls[j].op \notin {"click", "double_click"}

(* A double-click by description that was not found, after an earlier    *)
(* step.                                                                  *)
C7_Witness ==
    /\ engineState = "Failed"
    /\ cause = Some("target not found")
    /\ stepIndex > 0
    /\ plan[stepIndex + 1].action = "DOUBLE_CLICK"
    /\ stepIndex + 1 < Len(plan)


(***************************************************************************)
(* C8.  For the plan [Click(description only), TaskComplete]: the only     *)
(* click ever issued is issued by the engine, after the resolver's query   *)
(* returned a bounding box, at exactly the center of that box; the         *)
(* resolver only queries the vision service; there is never a second       *)
(* click; and when the click returns the command ends Completed with that  *)
(* single click as the only input injected.                                *)
(***************************************************************************)
C8_Plan ==
    /\ Len(rawPlan) = 2
    /\ TagOf(rawPlan[1]) = "CLICK"
    /\ RawDescriptionOnly(rawPlan[1])
    /\ TagOf(rawPlan[2]) = "TASK_COMPLETE"

C8_Point(k) ==
    LET l == calls[k].out[1].bounding_box
    IN  <<l[1] + (l[3] - l[1]) \div 2, l[2] + (l[4] - l[2]) \div 2>>

C8_Clicks == {k \in DOMAIN calls : calls[k].op \in {"click", "double_click"}}

C8_GroundedClick ==
    C8_Plan =>
        /\ \A k \in DOMAIN calls :
              calls[k].by = "resolver" => calls[k].op = "analyze_image"
        /\ \A k \in C8_Clicks :
              /\ k = 3
              /\ calls[k].op = "click"
              /\ calls[k].by = "engine"
              /\ calls[2].by = "resolver"
              /\ calls[2].result = "ok"
              /\ "bounding_box" \in DOMAIN calls[2].out[1]
              /\ calls[k].args = C8_Point(2)
        /\ Len(calls) <= 3
        /\ (pc = "done" /\ Len(calls) = 3 /\ calls[3].result = "ok")
              => /\ engineState = "Completed"
                 /\ message = RawMessage(rawPlan[2])
                 /\ injected = <<[input |-> "click", at |-> C8_Point(2)]>>
        /\ engineState = "Completed" => Len(injected) = 1

(* The click was grounded in a box whose sides have odd length somewhere, *)
(* so that the center is a rounded one, and the command completed.        *)
C8_Witness ==
    /\ C8_Plan
    /\ engineState = "Completed"
    /\ Len(calls) = 3
    /\ calls[2].out[1].bounding_box = <<1, 0, ScreenWidth, ScreenHeight>>
    /\ Len(injected) = 1
    /\ injected[1].at = C8_Point(2)

(***************************************************************************)
(* C9.  No retry: when a desktop-control operation called by the engine    *)
(* has raised, the command is Failed with that error as cause at that      *)
(* step, that call is the last call ever made (no later step is            *)
(* dispatched), and it is the only call of that operation for the step.    *)
(***************************************************************************)
C9_NoRetry ==
    \A k \in DOMAIN calls :
        (/\ calls[k].by = "engine"
         /\ calls[k].op \in DesktopOps
         /\ calls[k].result \notin {"pending", "ok"})
            => /\ k = Len(calls)
               /\ pc = "done"
               /\ engineState = "Failed"
               /\ cause = Some(calls[k].result)
               /\ stepIndex = calls[k].step
               /\ Cardinality({j \in CallsOf(calls[k].step) :
                                  calls[j].op = calls[k].op}) = 1
               /\ \A j \in DOMAIN calls : calls[j].step <= calls[k].step

(* The operation of the second step raised, with a step still to come. *)
C9_Witness ==
    /\ engineState = "Failed"
    /\ stepIndex = 1
    /\ Len(plan) > 2
    /\ calls # <<>>
    /\ calls[Len(calls)].op \in DesktopOps \ {"take_screenshot"}
    /\ calls[Len(calls)].result \notin {"pending", "ok"}
    /\ cause = Some(calls[Len(calls)].result)

(***************************************************************************)
(* C10.  Strict plan order, one call in flight: only the last call can be  *)
(* pending and it belongs to the current step; calls are made in           *)
(* nondecreasing step order and never for a step beyond the current one;   *)
(* no operation is called twice for a step; every step before the current  *)
(* one has been dispatched, with the operation of its own kind; and the    *)
(* current step never passes the end of the plan.                          *)
(***************************************************************************)
C10_StrictOrder ==
    /\ \A k \in DOMAIN calls :
          /\ calls[k].result = "pending" => (k = Len(calls) /\ calls[k].step = stepIndex)
          /\ calls[k].step <= stepIndex
          /\ calls[k].step < Len(rawPlan)
          /\ calls[k].by = "engine"
                => calls[k].op \in ExpectedOps(TagOf(rawPlan[calls[k].step + 1]))
          /\ \A j \in DOMAIN calls :
                /\ j < k => calls[j].step <= calls[k].step
                /\ (j # k /\ calls[j].step = calls[k].step)
                      => calls[j].op # calls[k].op
    /\ stepIndex <= Len(rawPlan)
    /\ \A i \in 0..(stepIndex - 1) : Dispatched(i)

(* Three steps, each with a call, the last one in flight. *)
C10_Witness ==
    /\ stepIndex = 2
    /\ Len(calls) >= 3
    /\ calls[Len(calls)].result = "pending"
    /\ \A i \in 0..2 : CallsOf(i) # {}

(***************************************************************************)
(* C11.  A Click or DoubleClick record with no x, no y and no description  *)
(* passes validation, and fails at dispatch: the engine never goes past    *)
(* it, the step ends the command in Failed, and nothing at all is called   *)
(* for the step (no screenshot, no grounding query, no click).             *)
(***************************************************************************)
C11_UnresolvableFailsAtDispatch ==
    \A i \in DOMAIN rawPlan :
        RawUnresolvable(rawPlan[i])
            => /\ i \notin InvalidSteps(rawPlan)
               /\ action_adapter[rawPlan[i]].value.action = TagOf(rawPlan[i])
               /\ stepIndex <= i - 1
               /\ \A k \in DOMAIN calls : calls[k].step < i - 1
               /\ (RawValid /\ pc = "done" /\ stepIndex = i - 1)
                     => /\ engineState = "Failed"
                        /\ cause # None

(* The engine reached an unresolvable click after an earlier step and     *)
(* failed there.                                                          *)
C11_Witness ==
    /\ engineState = "Failed"
    /\ stepIndex = 1
    /\ Len(rawPlan) > 1
    /\ RawUnresolvable(rawPlan[2])
    /\ calls # <<>>
    /\ \A k \in DOMAIN calls : calls[k].step = 0 /\ calls[k].result = "ok"

(***************************************************************************)
(* C12.  The engine is not reentrant: at most one operation is in          *)
(* progress at a time; at the prompt, where the next command is accepted,  *)
(* the engine is idle and nothing of the previous command is in progress;  *)
(* and a command is handed to the engine only from a state where the       *)
(* engine is idle, one command at a time.                                  *)
(***************************************************************************)
C12_NotReentrant ==
    /\ [](/\ \A k \in DOMAIN calls : calls[k].result = "pending" => k = Len(calls)
          /\ mainPc = "prompt" => (pc = "idle" /\ calls = <<>>)
          /\ pc \notin {"idle", "interrupted"} => mainPc = "run")
    /\ [][commandNo' # commandNo
             => /\ pc = "idle"
                /\ calls = <<>>
                /\ commandNo' = commandNo + 1]_vars

(* The second command of a session has an operation in flight. *)
C12_Witness ==
    /\ commandNo = 2
    /\ outcome # ""
    /\ mainPc = "run"
    /\ calls # <<>>
    /\ calls[Len(calls)].result = "pending"
    /\ calls[Len(calls)].op = "type_text"

(***************************************************************************)
(* C13.  Failure classification.  A command that ended on an               *)
(* infrastructure failure (the planning service or the vision service      *)
(* raised) is Aborted, never Failed; a command that ended on a             *)
(* plan-semantic failure (a TaskFailed step, a grounding that found no     *)
(* target, a click at coordinates outside the screen) is Failed, never     *)
(* Aborted; every ended command is in exactly one of Completed, Failed,    *)
(* Aborted, and Failed and Aborted never share a cause; with the           *)
(* configuration missing no command runs at all, so none ends Failed.      *)
(***************************************************************************)
C13_Infrastructure ==
    \/ cause \in {Some("LLMError"), Some("VLMError")}
    \/ calls # <<>> /\ calls[Len(calls)].result = "VLMError"

C13_PlanSemantic ==
    \/ /\ stepIndex < Len(plan)
       /\ plan[stepIndex + 1].action = "TASK_FAILED"
    \/ /\ calls # <<>>
       /\ calls[Len(calls)].by = "resolver"
       /\ calls[Len(calls)].result = "ok"
       /\ "bounding_box" \notin DOMAIN calls[Len(calls)].out[1]
    \/ /\ calls # <<>>
       /\ calls[Len(calls)].op \in {"click", "double_click"}
       /\ calls[Len(calls)].result = "DesktopControlError: out of bounds"

C14_LoopSurvivesErrors ==
    /\ [](/\ Not(command)
                => stopped \in {"", "config", "init", "quit", "interrupt"}
          /\ (mainPc = "prompt" /\ commandNo < MaxCommands)
                => ENABLED ReadCommand
          /\ pc \in {"received", "planning"}
                => /\ engineState = (IF pc = "received" THEN "Idle" ELSE "Running")
                   /\ calls = <<>> /\ injected = <<>>
                   /\ cause = None /\ plan = <<>> /\ stepIndex = 0)
    /\ [][(/\ Not(command)
           /\ mainPc = "run"
           /\ pc = "done"
           /\ engineState \in {"Failed", "Aborted"}
           /\ mainPc' # "run")
             => \/ mainPc' = "prompt" /\ stopped' = "" /\ pc' = "idle"
                \/ stopped' = "interrupt"]_vars

(* The first command raised; the second one ran and completed. *)
C14_Witness ==
    /\ Not(command)
    /\ commandNo = 2
    /\ outcome = "Raised"
    /\ pc = "done"
    /\ engineState = "Completed"
    /\ injected # <<>>

(***************************************************************************)
(* C15.  Configuration and initialization errors abort before any command  *)
(* is accepted: when the OpenAI key or the Replicate token is missing, or  *)
(* the construction of a service has raised, main is never at the prompt   *)
(* nor in Orchestrator.run, no command was handed to the engine, and the   *)
(* engine has done nothing; and main never gets past the start-up with a   *)
(* credential missing.                                                     *)
(***************************************************************************)
C15_StartupFailed ==
    \/ Not(app_config.openai_api_key)
    \/ Not(app_config.replicate_api_token)
    \/ stopped = "init"

C15_NoCommandAfterStartupError ==
    /\ C15_StartupFailed
          => /\ mainPc \in {"config", "returned"}
             /\ commandNo = 0
             /\ outcome = ""
             /\ pc = "idle"
             /\ engineState = "Idle"
             /\ calls = <<>>
             /\ injected = <<>>
    /\ stopped = "config"
          => (Not(app_config.openai_api_key) \/ Not(app_config.replicate_api_token))
    /\ mainPc \in {"mode", "prompt", "run"} => stopped = ""

(* Both credentials are set and the construction of a service raised. *)
C15_Witness ==
    /\ stopped = "init"
    /\ mainPc = "returned"
    /\ ~Not(app_config.openai_api_key)
    /\ ~Not(app_config.replicate_api_token)
    /\ commandNo = 0
    /\ Not(command)

(***************************************************************************)
(* C16.  BoundingBox(x_min, y_min, x_max, y_max) returns a box exactly     *)
(* when the four coordinates are >= 0, x_max > x_min and y_max > y_min,    *)
(* and the box it returns holds the four arguments; it raises otherwise    *)
(* (equal min and max on an axis included); and every box that exists      *)
(* satisfies the three conditions.                                         *)
(***************************************************************************)
C16_ValidArgs(a) ==
    /\ a[1] >= 0 /\ a[2] >= 0 /\ a[3] >= 0 /\ a[4] >= 0
    /\ a[3] > a[1]
    /\ a[4] > a[2]

C16_BoundingBoxValidity ==
    /\ (unit.call = "BoundingBox" /\ unit.pc # "called")
          => /\ unit.pc = "returned" <=> C16_ValidArgs(unit.args)
             /\ unit.pc = "raised" <=> ~C16_ValidArgs(unit.args)
             /\ unit.pc = "returned"
                   => unit.out = Some([x_min |-> unit.args[1], y_min |-> unit.args[2],
                                       x_max |-> unit.args[3], y_max |-> unit.args[4]])
             /\ unit.pc = "raised" => unit.out = None
    /\ unit.call = "calculate_center"
          => LET b == unit.args[1]
             IN  C16_ValidArgs(<<b.x_min, b.y_min, b.x_max, b.y_max>>)

(* x_max = x_min with everything else in order: the construction raised. *)
C16_Witness ==
    /\ unit.call = "BoundingBox"
    /\ unit.pc = "raised"
    /\ unit.args = <<30, 20, 30, 40>>

(***************************************************************************)
(* C17.  calculate_center of a valid box returns                           *)
(* (x_min + (x_max - x_min) // 2, y_min + (y_max - y_min) // 2), each axis *)
(* floored on its own: (10,20,30,40) gives (20,30), (0,0,100,200) gives    *)
(* (50,100), and a span of odd length rounds down.                         *)
(***************************************************************************)
C17_Center ==
    unit.call = "calculate_center"
        => LET b == unit.args[1]
               c == unit.out[1]
           IN  /\ c.x = b.x_min + (b.x_max - b.x_min) \div 2
               /\ c.y = b.y_min + (b.y_max - b.y_min) \div 2
               /\ 2 * c.x <= b.x_min + b.x_max
               /\ b.x_min + b.x_max <= 2 * c.x + 1
               /\ 2 * c.y <= b.y_min + b.y_max
               /\ b.y_min + b.y_max <= 2 * c.y + 1
               /\ b = [x_min |-> 10, y_min |-> 20, x_max |-> 30, y_max |-> 40]
                     => c = [x |-> 20, y |-> 30]
               /\ b = [x_min |-> 0, y_min |-> 0, x_max |-> 100, y_max |-> 200]
                     => c = [x |-> 50, y |-> 100]

(* The center of (0,0,100,200) was computed. *)
C17_Witness ==
    /\ unit.call = "calculate_center"
    /\ unit.args = <<[x_min |-> 0, y_min |-> 0, x_max |-> 100, y_max |-> 200]>>
    /\ unit.out = Some([x |-> 50, y |-> 100])

(***************************************************************************)
(* C18.  A raw step whose 'action' is a recognized discriminant is         *)
(* rejected when a required field of its variant is absent, or a field     *)
(* violates its range or its enumeration: WAIT with duration_ms < 0 and    *)
(* SCROLL with a direction outside up, down, left, right are rejected;     *)
(* WAIT with duration_ms >= 0 and SCROLL with one of the four directions   *)
(* are accepted, as that variant and with that value.                      *)
(***************************************************************************)
C18_Required(tag) ==
    CASE tag = "TYPE_TEXT" -> {"text"}
      [] tag = "OPEN_APPLICATION" -> {"application_name"}
      [] tag = "NAVIGATE_TO_WEBSITE" -> {"url"}
      [] tag = "ANALYZE_SCREENSHOT" -> {"prompt"}
      [] tag = "PRESS_KEY" -> {"key_name"}
      [] tag = "FIND_APP" -> {"app_name"}
      [] tag = "MOVE_MOUSE" -> {"x", "y"}
      [] tag = "SCROLL" -> {"direction"}
      [] OTHER -> {}

C18_Directions == {"up", "down", "left", "right"}

C18_Violates(r) ==
    \/ C18_Required(TagOf(r)) \ DOMAIN r # {}
    \/ TagOf(r) = "WAIT" /\ "duration_ms" \in DOMAIN r /\ r.duration_ms < 0
    \/ TagOf(r) = "MOVE_MOUSE" /\ "duration" \in DOMAIN r /\ r.duration < 0
    \/ TagOf(r) = "SCROLL" /\ "direction" \in DOMAIN r
          /\ r.direction \notin C18_Directions
    \/ TagOf(r) = "TASK_COMPLETE" /\ "success" \in DOMAIN r /\ r.success # TRUE
    \/ TagOf(r) = "TASK_FAILED" /\ "success" \in DOMAIN r /\ r.success # FALSE

C18_ConstraintsEnforced ==
    (unit.call = "validate_python" /\ unit.pc # "called"
        /\ TagOf(unit.args[1]) \in Tags)
        => LET r == unit.args[1]
           IN  /\ C18_Violates(r) => unit.pc = "raised"
               /\ (TagOf(r) = "WAIT" /\ "duration_ms" \in DOMAIN r
                      /\ r.duration_ms >= 0)
                     => /\ unit.pc = "returned"
                        /\ unit.out[1].action = "WAIT"
                        /\ unit.out[1].duration_ms = r.duration_ms
               /\ (TagOf(r) = "SCROLL" /\ "direction" \in DOMAIN r
                      /\ r.direction \in C18_Directions)
                     => /\ unit.pc = "returned"
                        /\ unit.out[1].action = "SCROLL"
                        /\ unit.out[1].direction = r.direction

(* A WAIT of -250 ms was rejected. *)
C18_Witness ==
    /\ unit.call = "validate_python"
    /\ unit.pc = "raised"
    /\ unit.args = <<[action |-> "WAIT", duration_ms |-> -250]>>

(***************************************************************************)
(* C19.  Validation is idempotent: an action obtained by validating a raw  *)
(* step, serialized back to its raw form (None fields kept as nulls or     *)
(* left out) and validated again, is accepted and yields an action equal   *)
(* to the first: the same variant and the same value in every field.  A    *)
(* plan is validated step by step, in order, so this is the plan's         *)
(* idempotence too.                                                        *)
(***************************************************************************)
C19_Idempotent ==
    unit.call = "revalidate"
        => /\ unit.out[1].ok
           /\ unit.out[1].value.action = unit.args[1].action
           /\ DOMAIN unit.out[1].value = DOMAIN unit.args[1]
           /\ unit.out[1].value = unit.args[1]

(* A bare DOUBLE_CLICK, every field but 'action' None, went round. *)
C19_Witness ==
    /\ unit.call = "revalidate"
    /\ unit.args[1].action = "DOUBLE_CLICK"
    /\ unit.args[1].description = None
    /\ "nulls" \in DOMAIN unit.args[2]
    /\ unit.out[1].ok

(***************************************************************************)
(* C20.  analyze_image returns an analysis only when the prediction's      *)
(* status is succeeded; when the prediction ends failed or canceled, or    *)
(* creating or polling it raises, or there is no client, it raises         *)
(* VLMError and returns nothing; and while the status is not terminal it   *)
(* neither returns nor raises on account of the status.                    *)
(***************************************************************************)
C20_AnalyzeImage ==
    unit.call = "analyze_image"
        => /\ unit.pc = "returned"
                 => /\ unit.status = "succeeded"
                    /\ unit.out # None
                    /\ unit.error = ""
                    /\ unit.raisedBy = ""
           /\ unit.status \in {"failed", "canceled"}
                 => /\ unit.pc = "raised"
                    /\ unit.raisedBy = "status"
           /\ unit.pc = "raised"
                 => /\ unit.error = "VLMError"
                    /\ unit.out = None
                    /\ unit.raisedBy \in {"client", "create", "get", "status"}
           /\ unit.raisedBy # "" => unit.pc = "raised"
           /\ unit.status \in {"starting", "processing"}
                 => unit.raisedBy # "status" /\ unit.pc # "returned"

(* The prediction was canceled after two polls that found it running. *)
C20_Witness ==
    /\ unit.call = "analyze_image"
    /\ unit.pc = "raised"
    /\ unit.status = "canceled"
    /\ unit.polls = 2
    /\ unit.error = "VLMError"

(***************************************************************************)
(* C21.  generate_plan raises LLMError when the completion call fails,     *)
(* when the response content is empty, when it is not valid JSON, and when *)
(* it is not an object holding a list under "plan"; in every other case it *)
(* returns that list, the same items in the same order.                    *)
(***************************************************************************)
C21_PlanTexts ==
    { "{\"plan\": []}",
      "{\"plan\": [{\"action\": \"WAIT\"}]}",
      "{\"plan\": [{\"action\": \"WAIT\"}, {\"action\": \"TASK_COMPLETE\", \"message\": \"done\"}]}",
      "{\"plan\": [{\"action\": \"TASK_COMPLETE\", \"message\": \"done\"}, {\"action\": \"WAIT\"}]}",
      "{\"plan\": [{\"action\": \"WAIT\"}], \"note\": \"short\"}",
      "{\"plan\": [\"WAIT\"]}" }

C21_ListIn(text) ==
    CASE text = "{\"plan\": []}" -> <<>>
      [] text = "{\"plan\": [\"WAIT\"]}" -> <<"WAIT">>
      [] text = "{\"plan\": [{\"action\": \"WAIT\"}, {\"action\": \"TASK_COMPLETE\", \"message\": \"done\"}]}" ->
            <<[action |-> "WAIT"], [action |-> "TASK_COMPLETE", message |-> "done"]>>
      [] text = "{\"plan\": [{\"action\": \"TASK_COMPLETE\", \"message\": \"done\"}, {\"action\": \"WAIT\"}]}" ->
            <<[action |-> "TASK_COMPLETE", message |-> "done"], [action |-> "WAIT"]>>
      [] OTHER -> <<[action |-> "WAIT"]>>

C21_HoldsPlanList ==
    unit.content # None /\ unit.content[1] \in C21_PlanTexts

C21_GeneratePlanListOrLLMError ==
    (unit.call = "generate_plan" /\ unit.pc \in {"returned", "raised"}) =>
        /\ unit.pc = "raised" => (unit.error = "LLMError" /\ unit.out = None)
        /\ unit.raisedBy \in {"APIError", "Exception"} => unit.pc = "raised"
        /\ C21_HoldsPlanList <=> unit.pc = "returned"
        /\ unit.pc = "returned" => unit.out = Some(C21_ListIn(unit.content[1]))

C21_Witness ==
    /\ unit.call = "generate_plan"
    /\ unit.pc = "returned"
    /\ Len(unit.out[1]) = 2
    /\ unit.out[1][1].action = "TASK_COMPLETE"

(***************************************************************************)
(* C22.  click, double_click and move_mouse with x outside [0, width) or   *)
(* y outside [0, height), and press_key with a key name whose lower-cased  *)
(* form is not a recognized key, raise DesktopControlError and inject no   *)
(* input; with valid arguments the operation issues its input exactly      *)
(* once, and when it returns exactly that one input was injected.          *)
(***************************************************************************)
C22_Ops == {"click", "double_click", "move_mouse", "press_key"}

C22_DesktopControlErrors ==
    { "DesktopControlError: out of bounds",
      "DesktopControlError: invalid key name",
      "DesktopControlError: click failed",
      "DesktopControlError: double click failed",
      "DesktopControlError: move mouse failed",
      "DesktopControlError: key press failed" }

C22_InvalidArgs ==
    IF unit.call = "press_key"
    THEN unit.args[1] \notin {"enter", "Enter", "TAB", "esc", "f5"}
    ELSE \/ unit.args[1] < 0 \/ unit.args[1] >= ScreenWidth
         \/ unit.args[2] < 0 \/ unit.args[2] >= ScreenHeight

C22_Input ==
    CASE unit.call = "click" -> [input |-> "click", at |-> unit.args]
      [] unit.call = "double_click" -> [input |-> "doubleClick", at |-> unit.args]
      [] unit.call = "move_mouse" -> [input |-> "moveTo", at |-> unit.args]
      [] unit.call = "press_key" ->
            [input |-> "press",
             at |-> <<CASE unit.args[1] = "Enter" -> "enter"
                        [] unit.args[1] = "TAB" -> "tab"
                        [] OTHER -> unit.args[1]>>]

C22_InvalidArgumentInjectsNothing ==
    (unit.call \in C22_Ops /\ unit.pc \in {"returned", "raised"}) =>
        /\ unit.pc = "raised" =>
              (unit.error \in C22_DesktopControlErrors /\ unit.inject = <<>>)
        /\ IF C22_InvalidArgs
           THEN unit.pc = "raised" /\ unit.issued = 0
           ELSE /\ unit.issued = 1
                /\ unit.pc = "returned" => unit.inject = <<C22_Input>>

C22_Witness ==
    /\ unit.call = "move_mouse"
    /\ unit.pc = "raised"
    /\ unit.args[1] = ScreenWidth
    /\ unit.args[2] = 0
    /\ unit.inject = <<>>

(***************************************************************************)
(* C30.  scroll makes exactly one scroll call for each of the four         *)
(* directions: up scrolls vertically by +amount, down vertically by        *)
(* -amount, left horizontally by -amount, right horizontally by +amount;   *)
(* any other direction makes no scroll call and raises nothing.            *)
(***************************************************************************)
C30_Direction == unit.args[1].direction

C30_Amount == unit.args[1].amount

C30_Expected ==
    CASE C30_Direction = "up" -> [input |-> "scroll", at |-> <<C30_Amount>>]
      [] C30_Direction = "down" -> [input |-> "scroll", at |-> <<0 - C30_Amount>>]
      [] C30_Direction = "left" -> [input |-> "hscroll", at |-> <<0 - C30_Amount>>]
      [] C30_Direction = "right" -> [input |-> "hscroll", at |-> <<C30_Amount>>]

C30_ScrollDirections ==
    (unit.call = "scroll" /\ unit.pc \in {"returned", "raised"}) =>
        IF C30_Direction \in {"up", "down", "left", "right"}
        THEN /\ unit.issued = 1
             /\ unit.pc = "returned" => unit.inject = <<C30_Expected>>
             /\ unit.pc = "raised" => unit.inject = <<>>
        ELSE unit.pc = "returned" /\ unit.issued = 0 /\ unit.inject = <<>>

C30_Witness ==
    /\ unit.call = "scroll"
    /\ unit.pc = "returned"
    /\ C30_Direction = "left"
    /\ C30_Amount = 3
    /\ unit.inject = <<[input |-> "hscroll", at |-> <<-3>>]>>

(***************************************************************************)
(* C23.  BoundingBox.from_list raises for every list whose length is not   *)
(* four; for a list [a, b, c, d] it does what                              *)
(* BoundingBox(x_min=a, y_min=b, x_max=c, y_max=d) does: it raises when    *)
(* the constructor raises and returns the same box when it returns.        *)
(***************************************************************************)
C23_Coords == unit.args[1]

C23_Constructed ==
    BoundingBox(C23_Coords[1], C23_Coords[2], C23_Coords[3], C23_Coords[4])

C23_FromListLikeConstructor ==
    (unit.call = "from_list" /\ unit.pc \in {"returned", "raised"}) =>
        IF Len(C23_Coords) # 4
        THEN unit.pc = "raised" /\ unit.out = None
        ELSE /\ C23_Constructed = None => (unit.pc = "raised" /\ unit.out = None)
             /\ C23_Constructed # None =>
                   /\ unit.pc = "returned"
                   /\ unit.out = Some([x_min |-> C23_Coords[1],
                                       y_min |-> C23_Coords[2],
                                       x_max |-> C23_Coords[3],
                                       y_max |-> C23_Coords[4]])

C23_Witness ==
    /\ unit.call = "from_list"
    /\ unit.pc = "raised"
    /\ unit.args[1] = <<10, 20, 30, 40, 50>>

(***************************************************************************)
(* C29.  The center computed for a valid BoundingBox lies inside the box:  *)
(* x_min <= center.x < x_max and y_min <= center.y < y_max, and so both    *)
(* of its coordinates are non-negative.                                    *)
(***************************************************************************)
C29_CenterInsideBox ==
    unit.call = "calculate_center" =>
        LET box == unit.args[1]
            center == unit.out[1]
        IN  /\ box.x_min <= center.x /\ center.x < box.x_max
            /\ box.y_min <= center.y /\ center.y < box.y_max
            /\ center.x >= 0 /\ center.y >= 0

C29_Witness ==
    /\ unit.call = "calculate_center"
    /\ unit.args[1] = [x_min |-> 2, y_min |-> 1, x_max |-> 3, y_max |-> 3]
    /\ unit.out = Some([x |-> 2, y |-> 2])

(***************************************************************************)
(* C27.  The polling loop of analyze_image has no ceiling.  It is left     *)
(* only with a retrieved status of succeeded, failed or canceled (or by an *)
(* exception of predictions.get); while the job is not terminal another    *)
(* poll is always possible, however many were made; once the job is        *)
(* terminal the call returns or raises; and if the job stays non-terminal  *)
(* and no poll raises, the call sleeps and polls again forever.            *)
(***************************************************************************)
C27_InLoop ==
    unit.call = "analyze_image" /\ unit.pc \in {"poll", "sleep"}

C27_Terminal == {"succeeded", "failed", "canceled"}

C27_NoCeiling ==
    /\ [](C27_InLoop /\ unit.pc = "poll" /\ unit.job \notin C27_Terminal
            => ENABLED PredictionPending)
    /\ [][C27_InLoop /\ ~C27_InLoop'
            => \/ unit'.status \in C27_Terminal /\ unit'.status = unit.job
               \/ unit'.raisedBy = "get"]_vars
    /\ (C27_InLoop /\ unit.job \in C27_Terminal)
            ~> (unit.call = "analyze_image" /\ unit.pc \in {"returned", "raised"})
    /\ <>[](C27_InLoop /\ unit.job \notin C27_Terminal)
            => ([]<>(unit.pc = "sleep") /\ []<>(unit.pc = "poll"))

(* The job is still processing when the loop has polled MaxPolls times. *)
C27_Witness ==
    /\ unit.call = "analyze_image"
    /\ unit.pc = "poll"
    /\ unit.polls = MaxPolls
    /\ unit.job = "processing"

(***************************************************************************)
(* C28.  An interrupt during interactive use aborts only the command that  *)
(* is running: the session goes back to the prompt, once the step in       *)
(* flight has finished or raised, and the inputs already injected stay;    *)
(* the read loop ends on quit or exit in any letter case; and an empty     *)
(* input line runs no command.                                             *)
(***************************************************************************)
C28_InterruptAbortsOnlyCommand ==
    [][/\ (mainPc = "run" /\ Not(command) /\ mainPc' # "run")
            => (mainPc' = "prompt" /\ pc = "done")
       /\ (mainPc = "prompt" /\ stopped' = "quit") => mainPc' = "returned"
       /\ (mainPc = "prompt" /\ mainPc' = "run")
            => run_command' \notin {"", "quit", "EXIT"}]_vars

(***************************************************************************)
(* C24.  The engine's state changes only by Idle -> Running(0),            *)
(* Running(i) -> Running(i+1) and Running(i) -> Completed, Failed or       *)
(* Aborted; a command has ended exactly when the state is one of these     *)
(* three; and from then on neither the state nor the step index changes    *)
(* and no operation is called or input injected.                           *)
(***************************************************************************)
C24_TerminalStates == {"Completed", "Failed", "Aborted"}

C24_StateMachine ==
    /\ [](/\ engineState \in {"Idle", "Running"} \cup C24_TerminalStates
          /\ pc = "done" <=> engineState \in C24_TerminalStates
          /\ engineState = "Idle" => stepIndex = 0)
    /\ [][/\ (engineState' # engineState \/ stepIndex' # stepIndex)
               => \/ /\ engineState = "Idle"
                     /\ engineState' = "Running"
                     /\ stepIndex' = 0
                  \/ /\ engineState = "Running"
                     /\ engineState' = "Running"
                     /\ stepIndex' = stepIndex + 1
                  \/ /\ engineState = "Running"
                     /\ engineState' \in C24_TerminalStates
                     /\ stepIndex' = stepIndex
          /\ engineState \in C24_TerminalStates
               => UNCHANGED <<engineState, stepIndex, cause, message, calls,
                              injected>>]_vars

(* Two steps ran, the third one failed the command. *)
C24_Witness ==
    /\ engineState = "Failed"
    /\ stepIndex = 2
    /\ pc = "done"
    /\ Len(injected) = 2

(***************************************************************************)
(* C25.  Execution of a finite plan terminates: when every collaborator    *)
(* call returns or raises, the engine reaches Completed, Failed or         *)
(* Aborted, and on the way it dispatches no step beyond the plan and no    *)
(* step twice.                                                             *)
(***************************************************************************)
C25_Terminates ==
    /\ <>(engineState \in {"Completed", "Failed", "Aborted"} /\ pc = "done")
    /\ [](/\ stepIndex <= Len(plan)
          /\ \A k \in DOMAIN calls : calls[k].step < Len(plan)
          /\ \A k1, k2 \in DOMAIN calls :
                k1 < k2 => /\ calls[k1].step <= calls[k2].step
                           /\ (calls[k1].step = calls[k2].step
                                 => calls[k1].op # calls[k2].op))

(* A plan of the greatest length was dispatched to its end. *)
C25_Witness ==
    /\ engineState = "Completed"
    /\ Len(plan) = MaxShortPlanLen
    /\ stepIndex = MaxShortPlanLen
    /\ {calls[k].step : k \in DOMAIN calls} = 0..(MaxShortPlanLen - 1)

(***************************************************************************)
(* C26.  Grounding uses a fresh screenshot: every query of the resolver    *)
(* is preceded, in the same step, by a capture of its own that returned,   *)
(* every call of an earlier step had finished by then, the screenshot      *)
(* shows the screen after every input injected so far, and the step's      *)
(* click is issued only after it.                                          *)
(***************************************************************************)
C26_Queries == {k \in DOMAIN calls : calls[k].by = "resolver"}

C26_FreshScreenshot ==
    \A k \in C26_Queries :
        /\ k > 1
        /\ calls[k - 1].by = "engine"
        /\ calls[k - 1].op = "take_screenshot"
        /\ calls[k - 1].step = calls[k].step
        /\ calls[k - 1].result = "ok"
        /\ \A j \in 1..(k - 1) : calls[j].result # "pending"
        /\ \A j \in 1..(k - 2) : calls[j].step < calls[k].step
        /\ TagOf(rawPlan[calls[k].step + 1]) \in {"CLICK", "DOUBLE_CLICK"}
        /\ RawDescriptionOnly(rawPlan[calls[k].step + 1])
        /\ \A j \in DOMAIN calls :
              (calls[j].step = calls[k].step
                 /\ calls[j].op \in {"click", "double_click"}) => j = k + 1
        /\ (k = Len(calls) \/ (k + 1 = Len(calls) /\ pc = "op"))
              => calls[k].args[1] = Len(injected)
        /\ calls[k].args[1] <= Len(injected)
        /\ calls[k].args[1] >=
              Cardinality({j \in 1..(k - 1) :
                              /\ calls[j].op \notin {"take_screenshot", "sleep",
                                                     "analyze_image"}
                              /\ calls[j].result = "ok"})

(* The second step was grounded on a screenshot taken after the first      *)
(* step's input, and its click was issued.                                 *)
C26_Witness ==
    \E k \in C26_Queries :
        /\ calls[k].step = 1
        /\ calls[k].args[1] = 1
        /\ k < Len(calls)
        /\ calls[k + 1].op \in {"click", "double_click"}
        /\ calls[k + 1].result = "ok"

====
